---- MODULE Spec2Model ----
(***************************************************************************)
(* Verification model of the mcp-brag ingestion kernel: the BulkQueue,     *)
(* the SelfTerminatingThreadManager, the SourceIngestionProgressManager,   *)
(* the file ingestion pipeline (coordinator, embedder, storage) and the    *)
(* URL ingestion (request, download worker, transcription worker).         *)
(* Each part has its own specification over the module's variables; the    *)
(* variables of the other parts stay at their initial values.              *)
(***************************************************************************)
EXTENDS Integers, Sequences, FiniteSets, TLC

(***************************************************************************)
(* Bounds of the model.                                                    *)
(***************************************************************************)
MaxSize == 2
MaxRetryCount == 1
MaxItems == 3
MaxCalls == 1
MaxPuts == 1
BatchSize == 1
MaxIngest == 2
MaxMarks == 2
MaxChunks == 2
MaxBytes == 2
MaxWindows == 3
MaxDistance == 2
MaxLines == 2
MaxLineChunks == 2
MaxQueryChunks == 2
MaxPages == 1
MaxSearches == 2
ResultLimit == 2
DeepResultLimit == 3
MaxTextLen == 5
MaxChunkSize == 2
MaxEmbedItems == 3
EmbedBatchSize == 2
MaxIncrements == 2
MaxAmount == 2
MaxSetterValue == 1

(***************************************************************************)
(* Program constants.                                                      *)
(***************************************************************************)
\* EMBEDDER_IDLE_TIMEOUT, in seconds
EMBEDDER_IDLE_TIMEOUT == 10
MAX_SOURCES_IN_DEEP_SEARCH == 3

VARIABLES
    \* ---- BulkQueue (embedder/read_write/bulk_queue.py)
    queue,          \* self._queue: the items of the underlying Queue, oldest first
    lock,           \* self._lock: "free" or the thread that holds it
    retry_limit,    \* BULK_QUEUE_FULL_RETRY_COUNT.value (configurable)
    bq_pc,          \* position of every thread inside put_many / get_many
    remaining_items,\* put_many's local remaining_items, per producer
    loop_i,         \* put_many's loop index i, per producer
    retry_count,    \* put_many's _retry_count, per producer
    max_items,      \* get_many's max_items, per consumer
    got,            \* get_many's local items, per consumer
    outcome,        \* how each thread's last bulk call ended
    calls,          \* number of put_many calls each producer has made
    placed,         \* history: every item ever placed in the underlying Queue
    call_len,       \* history: length of the list given to each put_many call
    woken,          \* history: the puts <<producer, call>> that invoked the wake hook
    taken,          \* history: every item get_many has removed, in the order of removal
    \* ---- SelfTerminatingThreadManager (server/thread_managers/interface.py)
    \*      with the run loop of EmbedderThreadManager and its input queue
    w_thread,       \* self._thread: "none", "alive" or "dead" (is_alive() false)
    w_pc,           \* position of the worker thread inside run()
    alive_threads,  \* number of started threads of the manager that have not ended
    stop_pc,        \* position of the thread inside stop(): "idle" or "join"
    restarted,      \* history: a thread was started by a call that found the stop flag set
    should_stop,    \* self._should_stop
    idle_for,       \* datetime.now() - self._last_activity, in seconds (saturating)
    in_queue,       \* the worker's input queue (its wake hook is ensure_running)
    put_pc,         \* position of every producer inside a put
    put_item,       \* the item a producer is putting
    puts,           \* number of puts each producer has made
    consumed,       \* history: the items the worker has read from its input queue
    idle_dead,      \* history: the thread's last termination was the idle break
    revived,        \* history: items whose put woke the worker after an idle shutdown
    \* ---- SourceIngestionProgressManager (server/workers/ingestion_state_manager.py)
    \*      and the DataSourceMap its callbacks write to
    states,         \* self._states: the IngestionState of every source, if any
    created,        \* number of create_state calls made for every source
    collections,    \* collections table: the CollectionState of every source path
    fired,          \* history: callbacks fired, per IngestionState created
    \* ---- threads calling the progress manager directly
    h_pc,           \* position of every client inside mark_as_completed / mark_as_failed
    h_kind,         \* "completed" or "failed": the call a client is in
    h_src,          \* data_source_id of the call
    h_ref,          \* the local 'state' of the call: the IngestionState it fetched
    marks,          \* number of mark_as_* calls every client has made
    \* ---- file ingestion pipeline (server/api/internal.py, server/workers/embedding.py,
    \*      embedder/embed.py, server/main.py)
    embedderReadQ,  \* chunks waiting for the embedder
    embedderWriteQ, \* embedded chunks waiting for the storage worker
    embeddings,     \* embeddings table: the stored chunks (collection = the chunk's path)
    appended,       \* history: every chunk ever inserted into the embeddings table
    ingests,        \* number of _process_file_async calls made for every path
    n_chunks,       \* history: chunk count of the file of every ingestion
    raised,         \* history: the ingestions whose Reader raised in read_iter
    co_pc,          \* position of the coordinator inside _process_file_async
    co_path,        \* its file_path
    co_gen,         \* the number of this ingestion of file_path
    co_n,           \* number of chunks read_iter yields for the file
    co_raise,       \* whether read_iter raises before it ends
    co_ref,         \* mark_as_completed's local 'state' in the coordinator
    em_pc,          \* position of the embedder inside Embedder.iter
    em_batch,       \* its batch
    em_todo,        \* source ids of the batch still to be counted
    st_pc,          \* position of the storage worker inside run_continuous_storage
    st_items,       \* its text_inputs
    st_groups,      \* sources of valid_text_inputs_by_source still to be stored
    st_ref,         \* mark_as_completed's local 'state' in the storage worker
    api_pc,         \* position of an ingestion_status request
    api_path,       \* its source
    api_result,     \* the ingestion_status the last request returned
    \* ---- URL ingestion (server/api/internal.py _process_url,
    \*      server/thread_managers/download_manager.py, transcription_manager.py)
    downloadQ,      \* download queue: URLs waiting for the download worker
    transcriptionQ, \* transcription queue: TranscriptionTasks waiting for the worker
    url_pc,         \* position of a request inside _process_url
    url_src,        \* its url
    url_gen,        \* the number of this ingestion of the url
    dl_pc,          \* position of the download worker inside _process_url
    dl_task,        \* the url it downloads (with the number of its ingestion)
    dl_total,       \* total_bytes reported by the downloader
    dl_done,        \* downloaded_bytes of the last progress event
    dl_ref,         \* mark_as_failed's local 'state' in the download worker
    dropped,        \* the URLs the download worker finished without queueing a task
    tr_pc,          \* position of the transcription worker inside run
    tr_task,        \* the source it transcribes (with the number of its ingestion)
    tr_total,       \* total_chunks of the provider's callbacks
    tr_index,       \* chunk_index of the last callback
    tr_n,           \* number of chunks of the transcript
    \* _get_extended_search_result_indices
    text_inputs,    \* its argument: the search hits of one source, with distances
    context_chars,  \* SEARCH_CONTEXT_EXTENSION_CHARACTERS.value at the call
    merged_indices, \* the list it returned
    mg_pc,          \* "call" before the call, "returned" after it
    \* search
    sq_pc,          \* position of a search request: "idle" or "wait"
    sq_kind,        \* "search" (_search_files), "deep" or "relevant"
    sq_offset,      \* its offset
    sq_sources,     \* its sources ({} for None)
    query_ids,      \* the query ids of _embed_user_query
    next_uuid,      \* the next value of uuid4()
    submitted,      \* the TextInputs the request put on the embedder queue
    searches,       \* number of requests so far
    sq_readQ,       \* embedder read queue
    sq_writeQ,      \* embedder write queue
    ss_pc,          \* position of the storage worker
    ss_items,       \* its local text_inputs
    handed,         \* the ids of the rows handed to insert_embeddings so far
    ix_collections, \* the source paths of the collections table
    ix_rows,        \* the rows of the embeddings table
    \* ---- The chunkers (server/read/text_reader.py, _cut_line_into_chunks)
    ck_kind,        \* "reader" (TextReader.read_iter) or "query" (_embed_user_query)
    ck_file,        \* the text of the file, or the query, as a sequence of characters
    ck_max,         \* chunk_size_max, or SEARCH_CHUNK_CHARACTER_LIMIT.value
    ck_pc,          \* "line" (the loop over the lines), "split" (the while loop), "done"
    ck_rest,        \* the part of the text the loop over the lines has not reached
    ck_char_index,  \* read_iter's char_index
    ck_line,        \* the text being split: text of _split_text_chunk, line of the query
    ck_origin,      \* original_start, or base_index
    ck_start_pos,   \* start_pos, or current_pos
    ck_chunks,      \* the chunks yielded so far
    \* ---- Embedder.iter between the two queues (embedder/embed.py)
    e_readQ,        \* embedderReadQ: TextInputs, each [id, text, vec]
    e_writeQ,       \* embedderWriteQ, of maxsize MaxSize
    e_retry_limit,  \* BULK_QUEUE_FULL_RETRY_COUNT.value
    e_pc,           \* "idle", "vectorize", "write", or "blocked" inside put_many
    e_batch,        \* the TextBatch of the running iteration
    e_read,         \* history: the items of that batch as they were read
    e_made,         \* history: how many TextInputs the producers have made
    e_out,          \* history: every item that entered embedderWriteQ, in order
    e_done,         \* history: the batches read by iterations that returned
    \* ---- One PhaseProgress and the threads that call increment on it
    pp_lock,        \* self._lock: "free" or the thread that holds it
    pp_initial,     \* history: current before the first call
    pp_current,     \* self.current
    pp_pc,          \* per thread: "idle", "lock", "read", "write", "unlock"
    pp_amount,      \* per thread: the amount of its call
    pp_loaded,      \* per thread: the value of self.current it has loaded
    pp_calls,       \* per thread: the calls it has made
    pp_added,       \* history: the sum of the amounts of the calls that have stored
    sq_collected,   \* the list 'results' of search before it is sliced
    sq_returned,    \* the results of the last search or deep search
    sq_relevant,    \* the sources of the last most-relevant-files request
    sq_status       \* "none", "success" or "timeout"
    \* (the locals dl_total, dl_done, tr_total, tr_index, tr_n are 0 outside
    \* the part of the code that uses them)

qvars == <<queue, lock, retry_limit, bq_pc, remaining_items, loop_i,
           retry_count, max_items, got, outcome, calls, placed, call_len,
           woken, taken>>

wvars == <<w_thread, w_pc, alive_threads, stop_pc, restarted, should_stop,
           idle_for, in_queue, put_pc, put_item, puts, consumed, idle_dead,
           revived>>

mvars == <<states, created, collections, fired>>

hvars == <<h_pc, h_kind, h_src, h_ref, marks>>

ivars == <<embedderReadQ, embedderWriteQ, embeddings, appended, ingests,
           n_chunks, raised>>

covars == <<co_pc, co_path, co_gen, co_n, co_raise, co_ref>>

emvars == <<em_pc, em_batch, em_todo>>

stvars == <<st_pc, st_items, st_groups, st_ref>>

apivars == <<api_pc, api_path, api_result>>

fvars == <<ivars, covars, emvars, stvars, apivars>>

urlvars == <<url_pc, url_src, url_gen>>

dlvars == <<dl_pc, dl_task, dl_total, dl_done, dl_ref, dropped>>

trvars == <<tr_pc, tr_task, tr_total, tr_index, tr_n>>

uvars == <<downloadQ, transcriptionQ, urlvars, dlvars, trvars>>

gvars == <<text_inputs, context_chars, merged_indices, mg_pc>>

svars == <<sq_pc, sq_kind, sq_offset, sq_sources, query_ids, next_uuid, submitted,
           searches, sq_readQ, sq_writeQ, ss_pc, ss_items, handed, ix_collections,
           ix_rows, sq_collected, sq_returned, sq_relevant, sq_status>>

kvars == <<ck_kind, ck_file, ck_max, ck_pc, ck_rest, ck_char_index, ck_line,
           ck_origin, ck_start_pos, ck_chunks>>

evars == <<e_readQ, e_writeQ, e_retry_limit, e_pc, e_batch, e_read, e_made, e_out,
           e_done>>

pvars == <<pp_lock, pp_initial, pp_current, pp_pc, pp_amount, pp_loaded, pp_calls,
           pp_added>>

vars == <<qvars, wvars, mvars, hvars, fvars, uvars, gvars, svars, kvars, evars,
          pvars>>

\* The variables of the other parts, which an action of one part leaves alone.
NotQueue == <<wvars, mvars, hvars, fvars, uvars, gvars, svars, kvars, evars, pvars>>
NotWorker == <<qvars, mvars, hvars, fvars, uvars, gvars, svars, kvars, evars, pvars>>
NotProgress == <<qvars, wvars, fvars, uvars, gvars, svars, kvars, evars, pvars>>
NotPipeline == <<qvars, wvars, hvars, uvars, gvars, svars, kvars, evars, pvars>>
NotUrl == <<qvars, wvars, hvars, covars, emvars, stvars, apivars, gvars, svars, kvars, evars, pvars>>
NotMerge == <<qvars, wvars, mvars, hvars, fvars, uvars, svars, kvars, evars, pvars>>
NotSearch == <<qvars, wvars, mvars, hvars, fvars, uvars, gvars, kvars, evars, pvars>>
NotSearchProgress == <<qvars, wvars, created, collections, fired, hvars, fvars,
                       uvars, gvars, kvars, evars, pvars>>
NotEmbed == <<qvars, wvars, created, collections, fired, hvars, fvars, uvars,
              gvars, svars, kvars, pvars>>
NotIncrement == <<qvars, wvars, mvars, hvars, fvars, uvars, gvars, svars, kvars,
                  evars>>
NotChunk == <<qvars, wvars, mvars, hvars, fvars, uvars, gvars, svars, evars, pvars>>

(***************************************************************************)
(* BulkQueue                                                               *)
(***************************************************************************)
Producers == {"p1", "p2"}
Consumers == {"c1"}
QThreads == Producers \cup Consumers

\* The list a producer hands to its c-th put_many call: n distinct items.
ItemsOf(p, c, n) == [k \in 1..n |-> <<p, c, k>>]

\* Queue.put_nowait raises Full when maxsize items are queued.
Full(q) == Len(q) >= MaxSize

QueueInit ==
    /\ queue = <<>>
    /\ lock = "free"
    /\ retry_limit \in 0..MaxRetryCount
    /\ bq_pc = [t \in QThreads |-> "idle"]
    /\ remaining_items = [p \in Producers |-> <<>>]
    /\ loop_i = [p \in Producers |-> 0]
    /\ retry_count = [p \in Producers |-> 0]
    /\ max_items = [c \in Consumers |-> 0]
    /\ got = [c \in Consumers |-> <<>>]
    /\ outcome = [t \in QThreads |-> "none"]
    /\ calls = [p \in Producers |-> 0]
    /\ placed = <<>>
    /\ call_len = [x \in {} |-> 0]
    /\ woken = {}
    /\ taken = <<>>

\* wake_consumer(): "if self._wake_consumer_function: self._wake_consumer_function()"
\* with the hook installed, on behalf of the c-th put of producer p.
NoWake(w, p, c) == w
WakeConsumer(w, p, c) == w \cup {<<p, c>>}

\* put_nowait(item), first half: self.wake_consumer().
PutNowaitCall(p) ==
    /\ bq_pc[p] = "idle"
    /\ calls[p] < MaxCalls
    /\ calls' = [calls EXCEPT ![p] = @ + 1]
    /\ call_len' = (<<p, calls[p] + 1>> :> 1) @@ call_len
    /\ woken' = WakeConsumer(woken, p, calls[p] + 1)
    /\ remaining_items' = [remaining_items EXCEPT ![p] = ItemsOf(p, calls[p] + 1, 1)]
    /\ bq_pc' = [bq_pc EXCEPT ![p] = "put_nowait"]
    /\ outcome' = [outcome EXCEPT ![p] = "none"]
    /\ UNCHANGED <<queue, lock, retry_limit, loop_i, retry_count, max_items, got,
                   placed, taken>>
    /\ UNCHANGED NotQueue

\* put_nowait(item), second half: self._queue.put_nowait(item), which raises
\* Full when the queue is full.
PutNowaitEnqueue(p) ==
    /\ bq_pc[p] = "put_nowait"
    /\ IF Full(queue)
          THEN /\ outcome' = [outcome EXCEPT ![p] = "full"]
               /\ UNCHANGED <<queue, placed>>
          ELSE /\ queue' = Append(queue, remaining_items[p][1])
               /\ placed' = Append(placed, remaining_items[p][1])
               /\ outcome' = [outcome EXCEPT ![p] = "ok"]
    /\ bq_pc' = [bq_pc EXCEPT ![p] = "idle"]
    /\ UNCHANGED <<lock, retry_limit, remaining_items, loop_i, retry_count,
                   max_items, got, calls, call_len, woken, taken>>
    /\ UNCHANGED NotQueue

\* put_many(items): the call itself; an empty list returns at once.
PutManyCall(p, n) ==
    /\ bq_pc[p] = "idle"
    /\ calls[p] < MaxCalls
    /\ calls' = [calls EXCEPT ![p] = @ + 1]
    /\ call_len' = (<<p, calls[p] + 1>> :> n) @@ call_len
    /\ retry_count' = [retry_count EXCEPT ![p] = 0]
    /\ IF n = 0
          THEN /\ outcome' = [outcome EXCEPT ![p] = "ok"]
               /\ UNCHANGED <<bq_pc, remaining_items>>
          ELSE /\ bq_pc' = [bq_pc EXCEPT ![p] = "lock"]
               /\ remaining_items' = [remaining_items EXCEPT ![p] = ItemsOf(p, calls[p] + 1, n)]
               /\ outcome' = [outcome EXCEPT ![p] = "none"]
    /\ UNCHANGED <<queue, lock, retry_limit, loop_i, max_items, got, placed, woken, taken>>
    /\ UNCHANGED NotQueue

\* "with self._lock:" of put_many. threading.Lock is not reentrant: the
\* recursive call of the retry path waits for the lock its caller holds.
LockAvailable(t) == lock = "free"

\* Under the lock: remaining_items = list(items); self.wake_consumer().
PutManyLock(p) ==
    /\ bq_pc[p] = "lock"
    /\ LockAvailable(p)
    /\ lock' = p
    /\ woken' = WakeConsumer(woken, p, calls[p])
    /\ bq_pc' = [bq_pc EXCEPT ![p] = "loop"]
    /\ loop_i' = [loop_i EXCEPT ![p] = 1]
    /\ UNCHANGED <<queue, retry_limit, remaining_items, retry_count, max_items,
                   got, outcome, calls, placed, call_len, taken>>
    /\ UNCHANGED NotQueue

\* One turn of "for i, item in enumerate(remaining_items)": put_nowait, the
\* Full handler, or the end of the loop (which leaves the with block).
PutManyStep(p) ==
    /\ bq_pc[p] = "loop"
    /\ IF loop_i[p] > Len(remaining_items[p])
          THEN /\ lock' = "free"
               /\ bq_pc' = [bq_pc EXCEPT ![p] = "idle"]
               /\ outcome' = [outcome EXCEPT ![p] = "ok"]
               /\ UNCHANGED <<queue, placed, remaining_items, loop_i>>
          ELSE IF ~Full(queue)
          THEN /\ queue' = Append(queue, remaining_items[p][loop_i[p]])
               /\ placed' = Append(placed, remaining_items[p][loop_i[p]])
               /\ loop_i' = [loop_i EXCEPT ![p] = @ + 1]
               /\ UNCHANGED <<lock, bq_pc, outcome, remaining_items>>
          ELSE /\ remaining_items' = [remaining_items EXCEPT ![p] =
                      SubSeq(@, loop_i[p], Len(@))]
               /\ IF retry_count[p] < retry_limit
                     THEN /\ bq_pc' = [bq_pc EXCEPT ![p] = "sleep"]
                          /\ UNCHANGED <<lock, outcome>>
                     ELSE /\ lock' = "free"
                          /\ bq_pc' = [bq_pc EXCEPT ![p] = "idle"]
                          /\ outcome' = [outcome EXCEPT ![p] = "full"]
               /\ UNCHANGED <<queue, placed, loop_i>>
    /\ UNCHANGED <<retry_limit, retry_count, max_items, got, calls, call_len, woken, taken>>
    /\ UNCHANGED NotQueue

\* time.sleep(sleep_time) and then self.put_many(remaining_items, _retry_count + 1),
\* both inside the caller's with block.
PutManyRetry(p) ==
    /\ bq_pc[p] = "sleep"
    /\ bq_pc' = [bq_pc EXCEPT ![p] = "lock"]
    /\ retry_count' = [retry_count EXCEPT ![p] = @ + 1]
    /\ UNCHANGED <<queue, lock, retry_limit, remaining_items, loop_i, max_items,
                   got, outcome, calls, placed, call_len, woken, taken>>
    /\ UNCHANGED NotQueue

\* get_many(max_items): ValueError for max_items <= 0, else start.
GetManyCall(c, k) ==
    /\ bq_pc[c] = "idle"
    /\ IF k <= 0
          THEN /\ outcome' = [outcome EXCEPT ![c] = "value_error"]
               /\ UNCHANGED <<bq_pc, max_items, got>>
          ELSE /\ bq_pc' = [bq_pc EXCEPT ![c] = "lock"]
               /\ max_items' = [max_items EXCEPT ![c] = k]
               /\ got' = [got EXCEPT ![c] = <<>>]
               /\ outcome' = [outcome EXCEPT ![c] = "none"]
    /\ UNCHANGED <<queue, lock, retry_limit, remaining_items, loop_i, retry_count,
                   calls, placed, call_len, woken, taken>>
    /\ UNCHANGED NotQueue

GetManyLock(c) ==
    /\ bq_pc[c] = "lock"
    /\ LockAvailable(c)
    /\ lock' = c
    /\ bq_pc' = [bq_pc EXCEPT ![c] = "loop"]
    /\ UNCHANGED <<queue, retry_limit, remaining_items, loop_i, retry_count,
                   max_items, got, outcome, calls, placed, call_len, woken, taken>>
    /\ UNCHANGED NotQueue

\* Queue.get_nowait() on a non-empty queue: the item it returns and the queue
\* it leaves.
GetNewest(q) == <<q[Len(q)], SubSeq(q, 1, Len(q) - 1)>>
GetNowait(q) == <<Head(q), Tail(q)>>

\* One turn of "for _ in range(max_items)": get_nowait, or break on Empty
\* or at the end of the range; then the with block is left.
GetManyStep(c) ==
    /\ bq_pc[c] = "loop"
    /\ IF Len(got[c]) < max_items[c] /\ queue # <<>>
          THEN /\ got' = [got EXCEPT ![c] = Append(@, GetNowait(queue)[1])]
               /\ taken' = Append(taken, GetNowait(queue)[1])
               /\ queue' = GetNowait(queue)[2]
               /\ UNCHANGED <<lock, bq_pc, outcome>>
          ELSE /\ lock' = "free"
               /\ bq_pc' = [bq_pc EXCEPT ![c] = "idle"]
               /\ outcome' = [outcome EXCEPT ![c] = "ok"]
               /\ UNCHANGED <<queue, got, taken>>
    /\ UNCHANGED <<retry_limit, remaining_items, loop_i, retry_count, max_items,
                   calls, placed, call_len, woken>>
    /\ UNCHANGED NotQueue

QueueNext ==
    \/ \E p \in Producers : PutNowaitCall(p)
    \/ \E p \in Producers : PutNowaitEnqueue(p)
    \/ \E p \in Producers, n \in 0..MaxItems : PutManyCall(p, n)
    \/ \E p \in Producers : PutManyLock(p)
    \/ \E p \in Producers : PutManyStep(p)
    \/ \E p \in Producers : PutManyRetry(p)
    \/ \E c \in Consumers, k \in 0..MaxItems : GetManyCall(c, k)
    \/ \E c \in Consumers : GetManyLock(c)
    \/ \E c \in Consumers : GetManyStep(c)


(***************************************************************************)
(* SelfTerminatingThreadManager, EmbedderThreadManager.run                 *)
(*                                                                         *)
(* Time: idle_for counts the seconds since _last_activity. Code between    *)
(* two suspension points takes no time: the clock advances only while the  *)
(* worker sleeps, processes a batch or is not running, and no producer is  *)
(* between the wake hook and the enqueue of a put.                         *)
(***************************************************************************)
WProducers == {"p1", "p2"}
WItems == {<<p, n>> : p \in WProducers, n \in 1..(MaxPuts + 1)}

Min(a, b) == IF a < b THEN a ELSE b

WorkerInit ==
    /\ w_thread = "none"
    /\ w_pc = "off"
    /\ alive_threads = 0
    /\ stop_pc = "idle"
    /\ restarted = FALSE
    /\ should_stop = FALSE
    /\ idle_for = 0
    /\ in_queue = <<>>
    /\ put_pc = [p \in WProducers |-> "idle"]
    /\ put_item = [p \in WProducers |-> <<p, 0>>]
    /\ puts = [p \in WProducers |-> 0]
    /\ consumed = {}
    /\ idle_dead = FALSE
    /\ revived = {}

\* "self._thread is None or not self._thread.is_alive()"
ThreadAbsentNoAliveCheck == w_thread = "none"
ThreadAlwaysAbsent == TRUE
ThreadAbsent == w_thread = "none" \/ w_thread = "dead"

\* The body of ensure_running, executed under self._lock, which stop() holds
\* for as long as it joins the thread.
EnsureRunningBody ==
    /\ stop_pc = "idle"
    /\ IF ThreadAbsent
          THEN /\ should_stop' = FALSE
               /\ idle_for' = 0
               /\ w_thread' = "alive"
               /\ alive_threads' = alive_threads + 1
               /\ w_pc' = "top"
               /\ restarted' = (restarted \/ should_stop)
          ELSE /\ idle_for' = 0
               /\ UNCHANGED <<should_stop, w_thread, alive_threads, w_pc, restarted>>
    /\ UNCHANGED stop_pc

\* ensure_running() called directly (main.start_embedder_thread, the tests).
EnsureRunning ==
    /\ EnsureRunningBody
    /\ UNCHANGED <<in_queue, put_pc, put_item, puts, consumed, idle_dead, revived>>
    /\ UNCHANGED NotWorker

\* put_nowait, first half: self.wake_consumer(), the hook being ensure_running.
PutWake(p) ==
    /\ put_pc[p] = "idle"
    /\ puts[p] < MaxPuts
    /\ puts' = [puts EXCEPT ![p] = @ + 1]
    /\ put_item' = [put_item EXCEPT ![p] = <<p, puts[p] + 1>>]
    /\ put_pc' = [put_pc EXCEPT ![p] = "enqueue"]
    /\ revived' = IF w_thread = "dead" /\ idle_dead
                     THEN revived \cup {<<p, puts[p] + 1>>}
                     ELSE revived
    /\ EnsureRunningBody
    /\ UNCHANGED <<in_queue, consumed, idle_dead>>
    /\ UNCHANGED NotWorker

\* put_nowait, second half: self._queue.put_nowait(item).
PutEnqueue(p) ==
    /\ put_pc[p] = "enqueue"
    /\ in_queue' = Append(in_queue, put_item[p])
    /\ put_pc' = [put_pc EXCEPT ![p] = "idle"]
    /\ UNCHANGED <<w_thread, alive_threads, stop_pc, restarted, w_pc,
                   should_stop, idle_for, put_item, puts, consumed, idle_dead,
                   revived>>
    /\ UNCHANGED NotWorker

\* "while not self._should_stop:"
StopIgnored == FALSE
StopRequested == should_stop

WorkerTop ==
    /\ w_pc = "top"
    /\ w_pc' = IF StopRequested THEN "exit" ELSE "check"
    /\ UNCHANGED <<w_thread, alive_threads, stop_pc, restarted, should_stop,
                   idle_for, in_queue, put_pc, put_item, puts, consumed,
                   idle_dead, revived>>
    /\ UNCHANGED NotWorker

\* "if self._read_queue.qsize() > 0: self.mark_as_active()" or the else branch.
WorkerCheck ==
    /\ w_pc = "check"
    /\ IF Len(in_queue) > 0
          THEN /\ idle_for' = 0
               /\ w_pc' = "iter"
          ELSE /\ w_pc' = "idle"
               /\ UNCHANGED idle_for
    /\ UNCHANGED <<w_thread, alive_threads, stop_pc, restarted, should_stop,
                   in_queue, put_pc, put_item, puts, consumed, idle_dead,
                   revived>>
    /\ UNCHANGED NotWorker

\* embedder.iter(): reads up to batch_size items and processes them.
WorkerIter ==
    /\ w_pc = "iter"
    /\ LET n == Min(BatchSize, Len(in_queue)) IN
          /\ consumed' = consumed \cup {in_queue[i] : i \in 1..n}
          /\ in_queue' = SubSeq(in_queue, n + 1, Len(in_queue))
    /\ w_pc' = "top"
    /\ UNCHANGED <<w_thread, alive_threads, stop_pc, restarted, should_stop,
                   idle_for, put_pc, put_item, puts, idle_dead, revived>>
    /\ UNCHANGED NotWorker

\* should_terminate_due_to_idle(): idle_time > activity_timeout, then break.
IdleExpired == idle_for > EMBEDDER_IDLE_TIMEOUT

WorkerIdleCheck ==
    /\ w_pc = "idle"
    /\ w_pc' = IF IdleExpired THEN "exit_idle" ELSE "sleep"
    /\ UNCHANGED <<w_thread, alive_threads, stop_pc, restarted, should_stop,
                   idle_for, in_queue, put_pc, put_item, puts, consumed,
                   idle_dead, revived>>
    /\ UNCHANGED NotWorker

\* time.sleep(0.3) returns.
WorkerSleep ==
    /\ w_pc = "sleep"
    /\ w_pc' = "top"
    /\ UNCHANGED <<w_thread, alive_threads, stop_pc, restarted, should_stop,
                   idle_for, in_queue, put_pc, put_item, puts, consumed,
                   idle_dead, revived>>
    /\ UNCHANGED NotWorker

\* After the loop: embedder._vectorizer.free(), the log line, and the thread ends.
WorkerExit ==
    /\ w_pc \in {"exit", "exit_idle"}
    /\ w_thread' = "dead"
    /\ alive_threads' = alive_threads - 1
    /\ UNCHANGED <<stop_pc, restarted>>
    /\ w_pc' = "off"
    /\ idle_dead' = (w_pc = "exit_idle")
    /\ UNCHANGED <<should_stop, idle_for, in_queue, put_pc, put_item, puts,
                   consumed, revived>>
    /\ UNCHANGED NotWorker

\* One second passes.
Tick ==
    /\ w_pc \in {"sleep", "iter", "off"}
    /\ \A p \in WProducers : put_pc[p] = "idle"
    /\ idle_for <= EMBEDDER_IDLE_TIMEOUT
    /\ idle_for' = idle_for + 1
    /\ UNCHANGED <<w_thread, alive_threads, stop_pc, restarted, w_pc,
                   should_stop, in_queue, put_pc, put_item, puts, consumed,
                   idle_dead, revived>>
    /\ UNCHANGED NotWorker

WorkerStep ==
    \/ WorkerTop
    \/ WorkerCheck
    \/ WorkerIter
    \/ WorkerIdleCheck
    \/ WorkerSleep
    \/ WorkerExit

WorkerNext ==
    \/ EnsureRunning
    \/ \E p \in WProducers : PutWake(p)
    \/ \E p \in WProducers : PutEnqueue(p)
    \/ WorkerStep
    \/ Tick

\* embedder.iter() when self._vectorizer.vectorize(batch) raises: the batch has
\* been read from the queue, nothing of it is written, iter logs and re-raises,
\* and run, which has no handler around embedder.iter(), ends with its thread.
WorkerIterRaises ==
    /\ w_pc = "iter"
    /\ LET n == Min(BatchSize, Len(in_queue)) IN
          in_queue' = SubSeq(in_queue, n + 1, Len(in_queue))
    /\ w_thread' = "dead"
    /\ alive_threads' = alive_threads - 1
    /\ UNCHANGED <<stop_pc, restarted>>
    /\ w_pc' = "off"
    /\ idle_dead' = FALSE
    /\ UNCHANGED <<should_stop, idle_for, put_pc, put_item, puts, consumed, revived>>
    /\ UNCHANGED NotWorker

WorkerRaiseNext ==
    \/ WorkerNext
    \/ WorkerIterRaises

\* stop(), up to the join: under self._lock, "if self._thread and
\* self._thread.is_alive(): self._should_stop = True", else it returns.
StopCall ==
    /\ stop_pc = "idle"
    /\ IF w_thread = "alive"
          THEN /\ should_stop' = TRUE
               /\ stop_pc' = "join"
          ELSE UNCHANGED <<should_stop, stop_pc>>
    /\ UNCHANGED <<w_thread, w_pc, alive_threads, restarted, idle_for, in_queue,
                   put_pc, put_item, puts, consumed, idle_dead, revived>>
    /\ UNCHANGED NotWorker

\* self._thread.join(timeout=...) returns because the thread has ended; stop
\* leaves the with block.
StopJoin ==
    /\ stop_pc = "join"
    /\ w_thread = "dead"
    /\ stop_pc' = "idle"
    /\ UNCHANGED <<w_thread, w_pc, alive_threads, restarted, should_stop, idle_for,
                   in_queue, put_pc, put_item, puts, consumed, idle_dead, revived>>
    /\ UNCHANGED NotWorker

\* self._thread.join(timeout=...) returns at its timeout with the thread still
\* alive, inside a batch or inside vectorizer.free(); stop logs the warning
\* and leaves the with block.
StopJoinTimeout ==
    /\ stop_pc = "join"
    /\ w_thread = "alive"
    /\ w_pc \in {"iter", "exit", "exit_idle"}
    /\ stop_pc' = "idle"
    /\ UNCHANGED <<w_thread, w_pc, alive_threads, restarted, should_stop, idle_for,
                   in_queue, put_pc, put_item, puts, consumed, idle_dead, revived>>
    /\ UNCHANGED NotWorker

WorkerStopNext ==
    \/ WorkerNext
    \/ StopCall
    \/ StopJoin
    \/ StopJoinTimeout

(***************************************************************************)
(* SourceIngestionProgressManager                                          *)
(*                                                                         *)
(* An IngestionState is a record; "present" tells whether the manager's    *)
(* dict holds one for the source.  gen numbers the create_state calls of   *)
(* a source (0: a state made by add_phase, without callbacks).  A phase's  *)
(* total None is has_total = FALSE.                                        *)
(***************************************************************************)
Sources == {"s1", "s2"}
Phases == {"initialization", "downloading", "transcription", "embedding", "storing"}
Ingestions == Sources \X (1..MaxIngest)

NoPhase == [exists |-> FALSE, current |-> 0, has_total |-> FALSE, total |-> 0]
\* PhaseProgress(): current = 0, total = None
NewPhase == [exists |-> TRUE, current |-> 0, has_total |-> FALSE, total |-> 0]

NoState ==
    [present |-> FALSE, gen |-> 0, callbacks |-> FALSE, current_phase |-> "none",
     phase_progress |-> [ph \in Phases |-> NoPhase]]
\* IngestionState(data_source_id, success_callback, failure_callback)
NewState(gen, cb) == [NoState EXCEPT !.present = TRUE, !.gen = gen, !.callbacks = cb]

\* IngestionState.get_or_create_phase(phase, is_current_phase)
GetOrCreatePhase(state, ph, is_current_phase) ==
    [state EXCEPT !.phase_progress[ph] = IF @.exists THEN @ ELSE NewPhase,
                  !.current_phase = IF is_current_phase THEN ph ELSE @]

\* PhaseProgress.set_total / increment / set_progress on the phase of a state
SetTotal(state, ph, total) ==
    [state EXCEPT !.phase_progress[ph].has_total = TRUE,
                  !.phase_progress[ph].total = total]
Increment(state, ph, amount) ==
    [state EXCEPT !.phase_progress[ph].current = @ + amount]
SetProgress(state, ph, current) ==
    [state EXCEPT !.phase_progress[ph].current = current]

\* create_state: a fresh IngestionState replaces whatever the dict held.
CreateState(st, s, gen) == [st EXCEPT ![s] = NewState(gen, TRUE)]

\* add_phase(data_source_id, phase, total=...): is_current_phase keeps its
\* default True at every call site.
AddPhase(st, s, ph, has_total, total) ==
    LET base == IF st[s].present THEN st[s] ELSE NewState(0, FALSE)
        with == GetOrCreatePhase(base, ph, TRUE)
    IN  [st EXCEPT ![s] = IF has_total THEN SetTotal(with, ph, total) ELSE with]

SetTotalOrCreate(st, s, ph, total) == AddPhase(st, s, ph, TRUE, total)
SetPhaseTotal(st, s, ph, total) ==
    IF ~st[s].present THEN st
    ELSE [st EXCEPT ![s] = SetTotal(GetOrCreatePhase(@, ph, TRUE), ph, total)]

IncrementPhaseProgress(st, s, ph, amount) ==
    IF ~st[s].present THEN st
    ELSE [st EXCEPT ![s] = Increment(GetOrCreatePhase(@, ph, TRUE), ph, amount)]

SetPhaseProgress(st, s, ph, current) ==
    IF ~st[s].present THEN st
    ELSE [st EXCEPT ![s] = SetProgress(GetOrCreatePhase(@, ph, TRUE), ph, current)]

\* PhaseProgress.percentage is None without a total or with total 0, else
\* current / total * 100; the caller compares "(percentage or 0) >= 100".
PercentageAtLeast100(st, s, ph) ==
    /\ st[s].present
    /\ st[s].phase_progress[ph].exists
    /\ st[s].phase_progress[ph].has_total
    /\ st[s].phase_progress[ph].total # 0
    /\ st[s].phase_progress[ph].current >= st[s].phase_progress[ph].total

\* get_phase_percentage indexes state.phase_progress[phase]: KeyError if the
\* state has no such phase.
PercentageKeyError(st, s, ph) ==
    /\ st[s].present
    /\ ~st[s].phase_progress[ph].exists

\* remove_source_state: self._states.pop(data_source_id, None)
RemoveSourceState(st, s) == [st EXCEPT ![s] = NoState]

KeepCollectionState(col, s, state) == col
\* DataSourceMap.set_state: UPDATE collections SET state WHERE source_path
SetCollectionState(col, s, state) ==
    IF col[s] = "not_found" THEN col ELSE [col EXCEPT ![s] = state]

\* The callback of a fetched IngestionState, if it has one: the closures of
\* success_ingestion_process_callback / fail_ingestion_process_callback.
CallbackState(kind) == IF kind = "completed" THEN "completed" ELSE "failed"

FireCallback(s, ref, kind) ==
    IF ref.callbacks
       THEN /\ collections' = SetCollectionState(collections, s, CallbackState(kind))
            /\ fired' = [fired EXCEPT ![<<s, ref.gen>>][kind] = @ + 1]
       ELSE UNCHANGED <<collections, fired>>

ProgressInit ==
    /\ states = [s \in Sources |-> NoState]
    /\ created = [s \in Sources |-> 0]
    /\ collections = [s \in Sources |-> "not_found"]
    /\ fired = [i \in Ingestions |-> [completed |-> 0, failed |-> 0]]

(***************************************************************************)
(* Threads calling the progress manager.  mark_as_completed and            *)
(* mark_as_failed take no lock: get_state, the callback and                *)
(* remove_source_state are three steps of the calling thread.              *)
(***************************************************************************)
Clients == {"t1", "t2"}

ClientInit ==
    /\ h_pc = [t \in Clients |-> "idle"]
    /\ h_kind = [t \in Clients |-> "completed"]
    /\ h_src = [t \in Clients |-> "s1"]
    /\ h_ref = [t \in Clients |-> NoState]
    /\ marks = [t \in Clients |-> 0]

\* progress_manager.create_state(source, success_callback, failure_callback)
ClientCreateState(t, s) ==
    /\ h_pc[t] = "idle"
    /\ created[s] < MaxIngest
    /\ created' = [created EXCEPT ![s] = @ + 1]
    /\ states' = CreateState(states, s, created[s] + 1)
    /\ UNCHANGED <<collections, fired>>
    /\ UNCHANGED hvars
    /\ UNCHANGED NotProgress

\* mark_as_completed / mark_as_failed: "state = self.get_state(id)" and the
\* early return when there is none.
MarkGetState(t, s, kind) ==
    /\ h_pc[t] = "idle"
    /\ marks[t] < MaxMarks
    /\ marks' = [marks EXCEPT ![t] = @ + 1]
    /\ h_kind' = [h_kind EXCEPT ![t] = kind]
    /\ h_src' = [h_src EXCEPT ![t] = s]
    /\ h_ref' = [h_ref EXCEPT ![t] = states[s]]
    /\ h_pc' = [h_pc EXCEPT ![t] = IF states[s].present THEN "callback" ELSE "idle"]
    /\ UNCHANGED mvars
    /\ UNCHANGED NotProgress

\* "if state.success_callback: state.success_callback()" (or the failure one)
MarkCallback(t) ==
    /\ h_pc[t] = "callback"
    /\ FireCallback(h_src[t], h_ref[t], h_kind[t])
    /\ h_pc' = [h_pc EXCEPT ![t] = "remove"]
    /\ UNCHANGED <<states, created>>
    /\ UNCHANGED <<h_kind, h_src, h_ref, marks>>
    /\ UNCHANGED NotProgress

\* "self.remove_source_state(data_source_id)"
MarkRemove(t) ==
    /\ h_pc[t] = "remove"
    /\ states' = RemoveSourceState(states, h_src[t])
    /\ h_pc' = [h_pc EXCEPT ![t] = "idle"]
    /\ UNCHANGED <<created, collections, fired>>
    /\ UNCHANGED <<h_kind, h_src, h_ref, marks>>
    /\ UNCHANGED NotProgress

ProgressNext ==
    \/ \E t \in Clients, s \in Sources : ClientCreateState(t, s)
    \/ \E t \in Clients, s \in Sources, kind \in {"completed", "failed"} :
          MarkGetState(t, s, kind)
    \/ \E t \in Clients : MarkCallback(t)
    \/ \E t \in Clients : MarkRemove(t)

\* The phase the callers of the three setters name here.
SetterPhases == {"embedding"}

\* set_phase_total, increment_phase_progress or set_phase_progress, called by a
\* thread on the manager: get_state, the early return when there is none, else
\* the update of the phase.  h_ref keeps what get_state returned.
ClientSetter(t, s, kind, ph, n) ==
    /\ h_pc[t] = "idle"
    /\ marks[t] < MaxMarks
    /\ marks' = [marks EXCEPT ![t] = @ + 1]
    /\ h_kind' = [h_kind EXCEPT ![t] = kind]
    /\ h_src' = [h_src EXCEPT ![t] = s]
    /\ h_ref' = [h_ref EXCEPT ![t] = states[s]]
    /\ states' = CASE kind = "set_total" -> SetPhaseTotal(states, s, ph, n)
                   [] kind = "increment" -> IncrementPhaseProgress(states, s, ph, n)
                   [] kind = "set_progress" -> SetPhaseProgress(states, s, ph, n)
    /\ UNCHANGED <<created, collections, fired>>
    /\ UNCHANGED h_pc
    /\ UNCHANGED NotProgress

ProgressSetterNext ==
    \/ ProgressNext
    \/ \E t \in Clients, s \in Sources, ph \in SetterPhases, n \in 1..MaxSetterValue,
          kind \in {"set_total", "increment", "set_progress"} :
          ClientSetter(t, s, kind, ph, n)

(***************************************************************************)
(* File ingestion pipeline: _process_file_async (the coordinator, run on   *)
(* an executor thread), the embedder worker, the storage worker and the    *)
(* ingestion_status endpoint.  A chunk is <<path, n, k>>: the k-th         *)
(* TextInput of the n-th ingestion of path; its meta["source"] and its     *)
(* source_id are the path.  Every call on the progress manager, on the     *)
(* DataSourceMap or on a queue is one step of the calling thread.  The     *)
(* queues are far from ASYNC_QUEUE_MAX_SIZE, and the vectorizer returns    *)
(* normally.                                                                *)
(***************************************************************************)
Paths == Sources
Chunks == Paths \X (1..MaxIngest) \X (1..MaxChunks)

ChunksOf(p, gen, n) == [k \in 1..n |-> <<p, gen, k>>]

\* The items of a list whose source is s, in order.
RECURSIVE ItemsOfSource(_, _)
ItemsOfSource(items, s) ==
    IF items = <<>> THEN <<>>
    ELSE IF Head(items)[1] = s
            THEN <<Head(items)>> \o ItemsOfSource(Tail(items), s)
            ELSE ItemsOfSource(Tail(items), s)

\* The keys of the dict built by grouping a list by source: first appearance.
RECURSIVE SourcesInOrder(_)
SourcesInOrder(items) ==
    IF items = <<>> THEN <<>>
    ELSE LET s == Head(items)[1]
             rest == SelectSeq(Tail(items), LAMBDA x : x[1] # s)
         IN  <<s>> \o SourcesInOrder(rest)

SeqToSet(q) == {q[i] : i \in 1..Len(q)}

\* DataSourceMap.exists(source)
Exists(p) == collections[p] # "not_found"

\* DataSourceMap.create: inserts the row unless the source is already there.
CreateCollection(col, p) ==
    IF col[p] = "not_found" THEN [col EXCEPT ![p] = "processing"] ELSE col

\* vector_count of get_source_stats: rows of the path, 0 without a collection
VectorCount(p) ==
    IF Exists(p) THEN Cardinality({x \in embeddings : x[1] = p}) ELSE 0

PipelineInit ==
    /\ embedderReadQ = <<>>
    /\ embedderWriteQ = <<>>
    /\ embeddings = {}
    /\ appended = {}
    /\ ingests = [p \in Paths |-> 0]
    /\ n_chunks = [i \in Ingestions |-> 0]
    /\ raised = {}
    /\ co_pc = "idle"
    /\ co_path = "s1"
    /\ co_gen = 0
    /\ co_n = 0
    /\ co_raise = FALSE
    /\ co_ref = NoState
    /\ em_pc = "idle"
    /\ em_batch = <<>>
    /\ em_todo = <<>>
    /\ st_pc = "idle"
    /\ st_items = <<>>
    /\ st_groups = <<>>
    /\ st_ref = NoState
    /\ api_pc = "idle"
    /\ api_path = "s1"
    /\ api_result = "none"

(***************************************************************************)
(* The coordinator: _process_file_async for one path of file_paths, and    *)
(* generate_embeddings_for_file.                                           *)
(***************************************************************************)
\* The number of _process_file_async calls made so far.
RECURSIVE SumOver(_, _)
SumOver(f, S) ==
    IF S = {} THEN 0
    ELSE LET x == CHOOSE y \in S : TRUE IN f[x] + SumOver(f, S \ {x})

Requests == SumOver(ingests, Paths)

\* A request arrives; "if data_source_map.exists(file_path):"
CoExists(p, n, r) ==
    /\ co_pc = "idle"
    /\ Requests < MaxIngest
    /\ r => n = 0
    /\ ingests' = [ingests EXCEPT ![p] = @ + 1]
    /\ n_chunks' = [n_chunks EXCEPT ![<<p, ingests[p] + 1>>] = n]
    /\ raised' = IF r THEN raised \cup {<<p, ingests[p] + 1>>} ELSE raised
    /\ co_path' = p
    /\ co_gen' = ingests[p] + 1
    /\ co_n' = n
    /\ co_raise' = r
    /\ co_pc' = IF Exists(p) THEN "delete" ELSE "create_state"
    /\ UNCHANGED <<embedderReadQ, embedderWriteQ, embeddings, appended, co_ref>>
    /\ UNCHANGED <<mvars, emvars, stvars, apivars>>
    /\ UNCHANGED NotPipeline

\* _delete_data_source(file_path): the collection row and its embeddings.
CoDelete ==
    /\ co_pc = "delete"
    /\ collections' = [collections EXCEPT ![co_path] = "not_found"]
    /\ embeddings' = IF Exists(co_path)
                        THEN {x \in embeddings : x[1] # co_path}
                        ELSE embeddings
    /\ co_pc' = "create_state"
    /\ UNCHANGED <<states, created, fired>>
    /\ UNCHANGED <<embedderReadQ, embedderWriteQ, appended, ingests, n_chunks, raised>>
    /\ UNCHANGED <<co_path, co_gen, co_n, co_raise, co_ref>>
    /\ UNCHANGED <<emvars, stvars, apivars>>
    /\ UNCHANGED NotPipeline

\* A coordinator step that only calls the progress manager.
CoManagerStep(from, to, new_states) ==
    /\ co_pc = from
    /\ states' = new_states
    /\ co_pc' = to
    /\ UNCHANGED <<created, collections, fired>>
    /\ UNCHANGED ivars
    /\ UNCHANGED <<co_path, co_gen, co_n, co_raise, co_ref>>
    /\ UNCHANGED <<emvars, stvars, apivars>>
    /\ UNCHANGED NotPipeline

\* progress_manager.create_state(file_path, success callback, failure callback)
CoCreateState ==
    CoManagerStep("create_state", "add_initialization",
                  CreateState(states, co_path, co_gen))

\* progress_manager.add_phase(file_path, INITIALIZATION, total=1)
CoAddInitialization ==
    CoManagerStep("add_initialization", "create_collection",
                  AddPhase(states, co_path, "initialization", TRUE, 1))

\* data_source_map.create(file_path, ..., CollectionState.PROCESSING)
CoCreateCollection ==
    /\ co_pc = "create_collection"
    /\ collections' = CreateCollection(collections, co_path)
    /\ co_pc' = "increment_initialization"
    /\ UNCHANGED <<states, created, fired>>
    /\ UNCHANGED ivars
    /\ UNCHANGED <<co_path, co_gen, co_n, co_raise, co_ref>>
    /\ UNCHANGED <<emvars, stvars, apivars>>
    /\ UNCHANGED NotPipeline

\* progress_manager.increment_phase_progress(file_path, INITIALIZATION, 1)
CoIncrementInitialization ==
    CoManagerStep("increment_initialization", "add_embedding",
                  IncrementPhaseProgress(states, co_path, "initialization", 1))

\* generate_embeddings_for_file: progress_manager.add_phase(file_path, EMBEDDING)
CoAddEmbedding ==
    CoManagerStep("add_embedding", "add_storing",
                  AddPhase(states, co_path, "embedding", FALSE, 0))

\* progress_manager.add_phase(file_path, STORING), then the read_iter loop,
\* which touches nothing shared: it raises, yields nothing, or yields co_n chunks.
CoAddStoring ==
    CoManagerStep("add_storing",
                  IF co_raise THEN "set_failed"
                  ELSE IF co_n = 0 THEN "mark_get" ELSE "total_embedding",
                  AddPhase(states, co_path, "storing", FALSE, 0))

\* The except branch: data_source_map.set_state(file_path, FAILED)
CoSetFailed ==
    /\ co_pc = "set_failed"
    /\ collections' = SetCollectionState(collections, co_path, "failed")
    /\ co_pc' = "idle"
    /\ UNCHANGED <<states, created, fired>>
    /\ UNCHANGED ivars
    /\ UNCHANGED <<co_path, co_gen, co_n, co_raise, co_ref>>
    /\ UNCHANGED <<emvars, stvars, apivars>>
    /\ UNCHANGED NotPipeline

\* "if not text_inputs: progress_manager.mark_as_completed(file_path)"
CoMarkGetState ==
    /\ co_pc = "mark_get"
    /\ co_ref' = states[co_path]
    /\ co_pc' = IF states[co_path].present THEN "mark_callback" ELSE "idle"
    /\ UNCHANGED mvars
    /\ UNCHANGED ivars
    /\ UNCHANGED <<co_path, co_gen, co_n, co_raise>>
    /\ UNCHANGED <<emvars, stvars, apivars>>
    /\ UNCHANGED NotPipeline

CoMarkCallback ==
    /\ co_pc = "mark_callback"
    /\ FireCallback(co_path, co_ref, "completed")
    /\ co_pc' = "mark_remove"
    /\ UNCHANGED <<states, created>>
    /\ UNCHANGED ivars
    /\ UNCHANGED <<co_path, co_gen, co_n, co_raise, co_ref>>
    /\ UNCHANGED <<emvars, stvars, apivars>>
    /\ UNCHANGED NotPipeline

CoMarkRemove ==
    CoManagerStep("mark_remove", "idle", RemoveSourceState(states, co_path))

\* progress_manager.set_phase_total(file_path, EMBEDDING, total_chunks)
CoTotalEmbedding ==
    CoManagerStep("total_embedding", "total_storing",
                  SetPhaseTotal(states, co_path, "embedding", co_n))

\* progress_manager.set_phase_total(file_path, STORING, total_chunks)
CoTotalStoring ==
    CoManagerStep("total_storing", "put_many",
                  SetPhaseTotal(states, co_path, "storing", co_n))

\* embedder_read_queue.put_many(text_inputs)
CoPutMany ==
    /\ co_pc = "put_many"
    /\ embedderReadQ' = embedderReadQ \o ChunksOf(co_path, co_gen, co_n)
    /\ co_pc' = "idle"
    /\ UNCHANGED mvars
    /\ UNCHANGED <<embedderWriteQ, embeddings, appended, ingests, n_chunks, raised>>
    /\ UNCHANGED <<co_path, co_gen, co_n, co_raise, co_ref>>
    /\ UNCHANGED <<emvars, stvars, apivars>>
    /\ UNCHANGED NotPipeline

CoordinatorStep ==
    \/ CoDelete
    \/ CoCreateState
    \/ CoAddInitialization
    \/ CoCreateCollection
    \/ CoIncrementInitialization
    \/ CoAddEmbedding
    \/ CoAddStoring
    \/ CoSetFailed
    \/ CoMarkGetState
    \/ CoMarkCallback
    \/ CoMarkRemove
    \/ CoTotalEmbedding
    \/ CoTotalStoring
    \/ CoPutMany

(***************************************************************************)
(* The embedder worker: Embedder.iter, called from EmbedderThreadManager   *)
(* whenever the read queue is not empty.                                   *)
(***************************************************************************)
\* batch = self._transport.read(): get_many(batch_size); then vectorize.
EmRead ==
    /\ em_pc = "idle"
    /\ Len(embedderReadQ) > 0
    /\ LET n == Min(BatchSize, Len(embedderReadQ)) IN
          /\ em_batch' = SubSeq(embedderReadQ, 1, n)
          /\ em_todo' = SourcesInOrder(SubSeq(embedderReadQ, 1, n))
          /\ embedderReadQ' = SubSeq(embedderReadQ, n + 1, Len(embedderReadQ))
    /\ em_pc' = "count"
    /\ UNCHANGED mvars
    /\ UNCHANGED <<embedderWriteQ, embeddings, appended, ingests, n_chunks, raised>>
    /\ UNCHANGED <<covars, stvars, apivars>>
    /\ UNCHANGED NotPipeline

\* One turn of "for source_id, count in batch.count_by_source_id().items():
\* increment_phase_progress(source_id, EMBEDDING, count)"
EmCount ==
    /\ em_pc = "count"
    /\ em_todo # <<>>
    /\ states' = IncrementPhaseProgress(states, Head(em_todo), "embedding",
                                        Len(ItemsOfSource(em_batch, Head(em_todo))))
    /\ em_todo' = Tail(em_todo)
    /\ em_pc' = IF Tail(em_todo) = <<>> THEN "write" ELSE "count"
    /\ UNCHANGED <<created, collections, fired>>
    /\ UNCHANGED ivars
    /\ UNCHANGED em_batch
    /\ UNCHANGED <<covars, stvars, apivars>>
    /\ UNCHANGED NotPipeline

\* self._transport.write(batch): put_many on the write queue
EmWrite ==
    /\ em_pc = "write"
    /\ embedderWriteQ' = embedderWriteQ \o em_batch
    /\ em_batch' = <<>>
    /\ em_pc' = "idle"
    /\ UNCHANGED mvars
    /\ UNCHANGED <<embedderReadQ, embeddings, appended, ingests, n_chunks, raised>>
    /\ UNCHANGED em_todo
    /\ UNCHANGED <<covars, stvars, apivars>>
    /\ UNCHANGED NotPipeline

EmbedderStep ==
    \/ EmRead
    \/ EmCount
    \/ EmWrite

(***************************************************************************)
(* The storage worker: run_continuous_storage.  An exception leaves the    *)
(* loop, which has no handler: the thread ends ("crashed").                *)
(***************************************************************************)
\* The head of st_groups is the source being stored.
StSource == Head(st_groups)

\* After the last statement for a source: the next source, or the loop again.
StAfterSource == IF Tail(st_groups) = <<>> THEN "idle" ELSE "exists"

\* text_inputs = read_queue.get_many(1000), grouped by meta["source"]
StRead ==
    /\ st_pc = "idle"
    /\ Len(embedderWriteQ) > 0
    /\ st_items' = embedderWriteQ
    /\ st_groups' = SourcesInOrder(embedderWriteQ)
    /\ embedderWriteQ' = <<>>
    /\ st_pc' = "exists"
    /\ UNCHANGED mvars
    /\ UNCHANGED <<embedderReadQ, embeddings, appended, ingests, n_chunks, raised>>
    /\ UNCHANGED st_ref
    /\ UNCHANGED <<covars, emvars, apivars>>
    /\ UNCHANGED NotPipeline

\* "if not data_source_map.exists(source):"
StExists ==
    /\ st_pc = "exists"
    /\ st_pc' = IF Exists(StSource) THEN "get" ELSE "create"
    /\ UNCHANGED mvars
    /\ UNCHANGED ivars
    /\ UNCHANGED <<st_items, st_groups, st_ref>>
    /\ UNCHANGED <<covars, emvars, apivars>>
    /\ UNCHANGED NotPipeline

\* data_source_map.create(source, source_type)
StCreate ==
    /\ st_pc = "create"
    /\ collections' = CreateCollection(collections, StSource)
    /\ st_pc' = "get"
    /\ UNCHANGED <<states, created, fired>>
    /\ UNCHANGED ivars
    /\ UNCHANGED <<st_items, st_groups, st_ref>>
    /\ UNCHANGED <<covars, emvars, apivars>>
    /\ UNCHANGED NotPipeline

\* data_source_map.get(source): ValueError if the source does not exist
StGet ==
    /\ st_pc = "get"
    /\ st_pc' = IF Exists(StSource) THEN "add_batch" ELSE "crashed"
    /\ UNCHANGED mvars
    /\ UNCHANGED ivars
    /\ UNCHANGED <<st_items, st_groups, st_ref>>
    /\ UNCHANGED <<covars, emvars, apivars>>
    /\ UNCHANGED NotPipeline

\* .add_batch(valid_text_inputs): INSERT INTO embeddings
StAddBatch ==
    /\ st_pc = "add_batch"
    /\ embeddings' = embeddings \cup SeqToSet(ItemsOfSource(st_items, StSource))
    /\ appended' = appended \cup SeqToSet(ItemsOfSource(st_items, StSource))
    /\ st_pc' = "increment"
    /\ UNCHANGED mvars
    /\ UNCHANGED <<embedderReadQ, embedderWriteQ, ingests, n_chunks, raised>>
    /\ UNCHANGED <<st_items, st_groups, st_ref>>
    /\ UNCHANGED <<covars, emvars, apivars>>
    /\ UNCHANGED NotPipeline

\* increment_phase_progress(source, STORING, len(valid_text_inputs))
StIncrement ==
    /\ st_pc = "increment"
    /\ states' = IncrementPhaseProgress(states, StSource, "storing",
                                        Len(ItemsOfSource(st_items, StSource)))
    /\ st_pc' = "percentage"
    /\ UNCHANGED <<created, collections, fired>>
    /\ UNCHANGED ivars
    /\ UNCHANGED <<st_items, st_groups, st_ref>>
    /\ UNCHANGED <<covars, emvars, apivars>>
    /\ UNCHANGED NotPipeline

\* "if (get_phase_percentage(source, STORING) or 0) >= 100:"
StPercentage ==
    /\ st_pc = "percentage"
    /\ IF PercentageKeyError(states, StSource, "storing")
          THEN /\ st_pc' = "crashed"
               /\ UNCHANGED st_groups
          ELSE IF PercentageAtLeast100(states, StSource, "storing")
                  THEN /\ st_pc' = "mark_get"
                       /\ UNCHANGED st_groups
                  ELSE /\ st_pc' = StAfterSource
                       /\ st_groups' = Tail(st_groups)
    /\ UNCHANGED mvars
    /\ UNCHANGED ivars
    /\ UNCHANGED <<st_items, st_ref>>
    /\ UNCHANGED <<covars, emvars, apivars>>
    /\ UNCHANGED NotPipeline

\* ingestion_state_manager.mark_as_completed(source), in its three steps
StMarkGetState ==
    /\ st_pc = "mark_get"
    /\ st_ref' = states[StSource]
    /\ st_pc' = IF states[StSource].present THEN "mark_callback" ELSE "set_completed"
    /\ UNCHANGED mvars
    /\ UNCHANGED ivars
    /\ UNCHANGED <<st_items, st_groups>>
    /\ UNCHANGED <<covars, emvars, apivars>>
    /\ UNCHANGED NotPipeline

StMarkCallback ==
    /\ st_pc = "mark_callback"
    /\ FireCallback(StSource, st_ref, "completed")
    /\ st_pc' = "mark_remove"
    /\ UNCHANGED <<states, created>>
    /\ UNCHANGED ivars
    /\ UNCHANGED <<st_items, st_groups, st_ref>>
    /\ UNCHANGED <<covars, emvars, apivars>>
    /\ UNCHANGED NotPipeline

StMarkRemove ==
    /\ st_pc = "mark_remove"
    /\ states' = RemoveSourceState(states, StSource)
    /\ st_pc' = "set_completed"
    /\ UNCHANGED <<created, collections, fired>>
    /\ UNCHANGED ivars
    /\ UNCHANGED <<st_items, st_groups, st_ref>>
    /\ UNCHANGED <<covars, emvars, apivars>>
    /\ UNCHANGED NotPipeline

\* data_source_map.set_state(source, CollectionState.COMPLETED)
StSetCompleted ==
    /\ st_pc = "set_completed"
    /\ collections' = SetCollectionState(collections, StSource, "completed")
    /\ st_pc' = StAfterSource
    /\ st_groups' = Tail(st_groups)
    /\ UNCHANGED <<states, created, fired>>
    /\ UNCHANGED ivars
    /\ UNCHANGED <<st_items, st_ref>>
    /\ UNCHANGED <<covars, emvars, apivars>>
    /\ UNCHANGED NotPipeline

StorageStep ==
    \/ StRead
    \/ StExists
    \/ StCreate
    \/ StGet
    \/ StAddBatch
    \/ StIncrement
    \/ StPercentage
    \/ StMarkGetState
    \/ StMarkCallback
    \/ StMarkRemove
    \/ StSetCompleted

(***************************************************************************)
(* The ingestion_status endpoint: _get_collection_ingestion_status.        *)
(***************************************************************************)
\* stats = data_source_map.get_source_stats(source); every status but
\* PROCESSING is returned as it is.
StatusRead(p) ==
    /\ api_pc = "idle"
    /\ api_path' = p
    /\ IF collections[p] = "processing"
          THEN /\ api_pc' = "progress"
               /\ UNCHANGED api_result
          ELSE /\ api_result' = collections[p]
               /\ UNCHANGED api_pc
    /\ UNCHANGED mvars
    /\ UNCHANGED <<ivars, covars, emvars, stvars>>
    /\ UNCHANGED NotPipeline

\* progress = progress_manager.get_state(source); without one the source is
\* set to FAILED and reported failed.
StatusProgress ==
    /\ api_pc = "progress"
    /\ IF states[api_path].present
          THEN /\ api_result' = "processing"
               /\ UNCHANGED collections
          ELSE /\ api_result' = "failed"
               /\ collections' = SetCollectionState(collections, api_path, "failed")
    /\ api_pc' = "idle"
    /\ UNCHANGED <<states, created, fired>>
    /\ UNCHANGED api_path
    /\ UNCHANGED <<ivars, covars, emvars, stvars>>
    /\ UNCHANGED NotPipeline

\* The delete endpoint: _delete_data_source(source), the collection row and its
\* embeddings.  api_result keeps that the last request answered was a delete.
ApiDelete(p) ==
    /\ api_pc = "idle"
    /\ collections' = [collections EXCEPT ![p] = "not_found"]
    /\ embeddings' = IF Exists(p) THEN {x \in embeddings : x[1] # p} ELSE embeddings
    /\ api_path' = p
    /\ api_result' = "deleted"
    /\ UNCHANGED api_pc
    /\ UNCHANGED <<states, created, fired>>
    /\ UNCHANGED <<embedderReadQ, embedderWriteQ, appended, ingests, n_chunks, raised>>
    /\ UNCHANGED <<covars, emvars, stvars>>
    /\ UNCHANGED NotPipeline

\* The pipeline with callers of the delete endpoint instead of the status one.
DeleteNext ==
    \/ \E p \in Paths, n \in 0..MaxChunks, r \in BOOLEAN : CoExists(p, n, r)
    \/ CoordinatorStep
    \/ EmbedderStep
    \/ StorageStep
    \/ \E p \in Paths : ApiDelete(p)

PipelineNext ==
    \/ \E p \in Paths, n \in 0..MaxChunks, r \in BOOLEAN : CoExists(p, n, r)
    \/ CoordinatorStep
    \/ EmbedderStep
    \/ StorageStep
    \/ \E p \in Paths : StatusRead(p)
    \/ StatusProgress

(***************************************************************************)
(* URL ingestion: _process_url (the request), the download worker and the  *)
(* transcription worker, up to the hand-over of the transcript's chunks to *)
(* the embedder read queue.  The downloader reports a fixed total_bytes    *)
(* and growing downloaded_bytes; the transcription provider reports a      *)
(* fixed total_chunks and growing chunk_index values up to total_chunks.   *)
(***************************************************************************)
Urls == Sources

UrlInit ==
    /\ downloadQ = <<>>
    /\ transcriptionQ = <<>>
    /\ url_pc = "idle"
    /\ url_src = "s1"
    /\ url_gen = 0
    /\ dl_pc = "idle"
    /\ dl_task = <<"s1", 0>>
    /\ dl_total = 0
    /\ dl_done = 0
    /\ dl_ref = NoState
    /\ dropped = {}
    /\ tr_pc = "idle"
    /\ tr_task = <<"s1", 0>>
    /\ tr_total = 0
    /\ tr_index = 0
    /\ tr_n = 0

\* A request step that only calls the progress manager.
UrlManagerStep(from, to, new_states) ==
    /\ url_pc = from
    /\ states' = new_states
    /\ url_pc' = to
    /\ UNCHANGED <<created, collections, fired>>
    /\ UNCHANGED ivars
    /\ UNCHANGED <<downloadQ, transcriptionQ, url_src, url_gen, dlvars, trvars>>
    /\ UNCHANGED NotUrl

\* A request arrives; "if data_source_map.exists(url):"
UrlExists(u) ==
    /\ url_pc = "idle"
    /\ Requests < MaxIngest
    /\ ingests' = [ingests EXCEPT ![u] = @ + 1]
    /\ url_src' = u
    /\ url_gen' = ingests[u] + 1
    /\ url_pc' = IF Exists(u) THEN "delete" ELSE "create_state"
    /\ UNCHANGED mvars
    /\ UNCHANGED <<embedderReadQ, embedderWriteQ, embeddings, appended, n_chunks, raised>>
    /\ UNCHANGED <<downloadQ, transcriptionQ, dlvars, trvars>>
    /\ UNCHANGED NotUrl

\* _delete_data_source(url)
UrlDelete ==
    /\ url_pc = "delete"
    /\ collections' = [collections EXCEPT ![url_src] = "not_found"]
    /\ embeddings' = IF Exists(url_src)
                        THEN {x \in embeddings : x[1] # url_src}
                        ELSE embeddings
    /\ url_pc' = "create_state"
    /\ UNCHANGED <<states, created, fired>>
    /\ UNCHANGED <<embedderReadQ, embedderWriteQ, appended, ingests, n_chunks, raised>>
    /\ UNCHANGED <<downloadQ, transcriptionQ, url_src, url_gen, dlvars, trvars>>
    /\ UNCHANGED NotUrl

\* progress_manager.create_state(url, success callback, failure callback)
UrlCreateState ==
    UrlManagerStep("create_state", "add_initialization",
                   CreateState(states, url_src, url_gen))

\* progress_manager.add_phase(url, INITIALIZATION, total=1)
UrlAddInitialization ==
    UrlManagerStep("add_initialization", "put",
                   AddPhase(states, url_src, "initialization", TRUE, 1))

\* download_queue.put_many([url])
UrlPut ==
    /\ url_pc = "put"
    /\ downloadQ' = Append(downloadQ, <<url_src, url_gen>>)
    /\ url_pc' = "increment_initialization"
    /\ UNCHANGED mvars
    /\ UNCHANGED ivars
    /\ UNCHANGED <<transcriptionQ, url_src, url_gen, dlvars, trvars>>
    /\ UNCHANGED NotUrl

\* progress_manager.increment_phase_progress(url, INITIALIZATION, 1)
UrlIncrementInitialization ==
    UrlManagerStep("increment_initialization", "create_collection",
                   IncrementPhaseProgress(states, url_src, "initialization", 1))

\* data_source_map.create(url, YOUTUBE_TRANSCRIPTION, source_name, PROCESSING)
UrlCreateCollection ==
    /\ url_pc = "create_collection"
    /\ collections' = CreateCollection(collections, url_src)
    /\ url_pc' = "idle"
    /\ UNCHANGED <<states, created, fired>>
    /\ UNCHANGED ivars
    /\ UNCHANGED <<downloadQ, transcriptionQ, url_src, url_gen, dlvars, trvars>>
    /\ UNCHANGED NotUrl

UrlRequestStep ==
    \/ UrlDelete
    \/ UrlCreateState
    \/ UrlAddInitialization
    \/ UrlPut
    \/ UrlIncrementInitialization
    \/ UrlCreateCollection

(***************************************************************************)
(* The download worker: DownloadManager.run and _process_url.              *)
(***************************************************************************)
DlSource == dl_task[1]

\* A download worker step that only calls the progress manager.
DlManagerStep(from, to, new_states) ==
    /\ dl_pc = from
    /\ states' = new_states
    /\ dl_pc' = to
    /\ UNCHANGED <<created, collections, fired>>
    /\ UNCHANGED ivars
    /\ UNCHANGED <<downloadQ, transcriptionQ, urlvars, trvars>>
    /\ UNCHANGED <<dl_task, dl_total, dl_done, dl_ref, dropped>>
    /\ UNCHANGED NotUrl

\* urlparse(url).scheme and urlparse(url).netloc of the URLs that are requested
UrlScheme(u) == "https"

UrlNetloc(u) == IF u = "s1" THEN "www.youtube.com" ELSE "vimeo.com"

\* the netlocs that contain the word "youtube"
YoutubeNetlocs == {"youtube.com", "www.youtube.com", "m.youtube.com", "music.youtube.com"}

\* DownloadManager._is_valid_youtube_url
IsValidYoutubeUrl(u) ==
    IF UrlScheme(u) \notin {"http", "https"}
       THEN FALSE
       ELSE IF UrlNetloc(u) \in {"youtube.com", "www.youtube.com", "youtu.be", "m.youtube.com"}
               THEN TRUE
               ELSE UrlNetloc(u) \in YoutubeNetlocs

\* url = self._download_queue.get_one(); _process_url(url) up to its first call
\* of the progress manager, or its return for a URL that is not a YouTube URL
DlGet ==
    /\ dl_pc = "idle"
    /\ downloadQ # <<>>
    /\ dl_task' = Head(downloadQ)
    /\ downloadQ' = Tail(downloadQ)
    /\ dl_total' = 0
    /\ dl_done' = 0
    /\ IF IsValidYoutubeUrl(Head(downloadQ)[1])
          THEN /\ dl_pc' = "add_phase"
               /\ UNCHANGED dropped
          ELSE /\ dl_pc' = "idle"
               /\ dropped' = dropped \cup {Head(downloadQ)}
    /\ UNCHANGED mvars
    /\ UNCHANGED ivars
    /\ UNCHANGED <<transcriptionQ, urlvars, trvars, dl_ref>>
    /\ UNCHANGED NotUrl

\* progress_manager.add_phase(url, DOWNLOADING, total=1)
DlAddPhase ==
    DlManagerStep("add_phase", "download",
                  AddPhase(states, DlSource, "downloading", TRUE, 1))

\* progress_hook, status "downloading" with total_bytes tb and downloaded_bytes
\* d: progress_manager.set_phase_total(url, DOWNLOADING, total_bytes)
DlHookTotal(tb, d) ==
    /\ dl_pc = "download"
    /\ IF dl_total = 0 THEN tb \in 1..MaxBytes ELSE tb = dl_total
    /\ d > dl_done
    /\ d <= tb
    /\ states' = SetPhaseTotal(states, DlSource, "downloading", tb)
    /\ dl_total' = tb
    /\ dl_done' = d
    /\ dl_pc' = "hook_progress"
    /\ UNCHANGED <<created, collections, fired>>
    /\ UNCHANGED ivars
    /\ UNCHANGED <<downloadQ, transcriptionQ, urlvars, trvars>>
    /\ UNCHANGED <<dl_task, dl_ref, dropped>>
    /\ UNCHANGED NotUrl

\* progress_manager.set_phase_progress(url, DOWNLOADING, downloaded)
DlHookProgress ==
    DlManagerStep("hook_progress", "download",
                  SetPhaseProgress(states, DlSource, "downloading", dl_done))

\* download_audio returned: self._transcription_queue.put_many([task])
DlPutTask ==
    /\ dl_pc = "download"
    /\ transcriptionQ' = Append(transcriptionQ, dl_task)
    /\ dl_pc' = "idle"
    /\ dl_total' = 0
    /\ dl_done' = 0
    /\ UNCHANGED mvars
    /\ UNCHANGED ivars
    /\ UNCHANGED <<downloadQ, urlvars, trvars>>
    /\ UNCHANGED <<dl_task, dl_ref, dropped>>
    /\ UNCHANGED NotUrl

\* download_audio raised: progress_manager.mark_as_failed(url), in its three steps
DlMarkGetState ==
    /\ dl_pc = "download"
    /\ dl_ref' = states[DlSource]
    /\ dl_pc' = IF states[DlSource].present THEN "mark_callback" ELSE "idle"
    /\ dropped' = IF states[DlSource].present THEN dropped ELSE dropped \cup {dl_task}
    /\ dl_total' = 0
    /\ dl_done' = 0
    /\ UNCHANGED mvars
    /\ UNCHANGED ivars
    /\ UNCHANGED <<downloadQ, transcriptionQ, urlvars, trvars>>
    /\ UNCHANGED dl_task
    /\ UNCHANGED NotUrl

DlMarkCallback ==
    /\ dl_pc = "mark_callback"
    /\ FireCallback(DlSource, dl_ref, "failed")
    /\ dl_pc' = "mark_remove"
    /\ UNCHANGED <<states, created>>
    /\ UNCHANGED ivars
    /\ UNCHANGED <<downloadQ, transcriptionQ, urlvars, trvars>>
    /\ UNCHANGED <<dl_task, dl_total, dl_done, dl_ref, dropped>>
    /\ UNCHANGED NotUrl

DlMarkRemove ==
    /\ dl_pc = "mark_remove"
    /\ states' = RemoveSourceState(states, DlSource)
    /\ dropped' = dropped \cup {dl_task}
    /\ dl_pc' = "idle"
    /\ UNCHANGED <<created, collections, fired>>
    /\ UNCHANGED ivars
    /\ UNCHANGED <<downloadQ, transcriptionQ, urlvars, trvars>>
    /\ UNCHANGED <<dl_task, dl_total, dl_done, dl_ref>>
    /\ UNCHANGED NotUrl

DownloadStep ==
    \/ DlGet
    \/ DlAddPhase
    \/ \E tb \in 1..MaxBytes, d \in 1..MaxBytes : DlHookTotal(tb, d)
    \/ DlHookProgress
    \/ DlPutTask
    \/ DlMarkGetState
    \/ DlMarkCallback
    \/ DlMarkRemove

(***************************************************************************)
(* The transcription worker: TranscriptionThreadManager.run with           *)
(* chunk_callback_func and generate_embeddings_for_audio_transcription.    *)
(***************************************************************************)
TrSource == tr_task[1]

\* A transcription worker step that only calls the progress manager.
TrManagerStep(from, to, new_states) ==
    /\ tr_pc = from
    /\ states' = new_states
    /\ tr_pc' = to
    /\ UNCHANGED <<created, collections, fired>>
    /\ UNCHANGED ivars
    /\ UNCHANGED <<downloadQ, transcriptionQ, urlvars, dlvars>>
    /\ UNCHANGED <<tr_task, tr_total, tr_index, tr_n>>
    /\ UNCHANGED NotUrl

\* task = self._transcription_queue.get_one()
TrGet ==
    /\ tr_pc = "idle"
    /\ transcriptionQ # <<>>
    /\ tr_task' = Head(transcriptionQ)
    /\ transcriptionQ' = Tail(transcriptionQ)
    /\ tr_total' = 0
    /\ tr_index' = 0
    /\ tr_n' = 0
    /\ tr_pc' = "add_phase"
    /\ UNCHANGED mvars
    /\ UNCHANGED ivars
    /\ UNCHANGED <<downloadQ, urlvars, dlvars>>
    /\ UNCHANGED NotUrl

\* progress_manager.add_phase(task.source, TRANSCRIPTION, total=1)
TrAddPhase ==
    TrManagerStep("add_phase", "transcribe",
                  AddPhase(states, TrSource, "transcription", TRUE, 1))

\* The provider calls callback(chunk_index, total_chunks):
\* set_phase_progress(source, TRANSCRIPTION, chunk_index)
TrCallbackProgress(i, n) ==
    /\ tr_pc = "transcribe"
    /\ IF tr_total = 0 THEN n \in 1..MaxChunks ELSE n = tr_total /\ i > tr_index
    /\ i <= n
    /\ states' = SetPhaseProgress(states, TrSource, "transcription", i)
    /\ tr_total' = n
    /\ tr_index' = i
    /\ tr_pc' = "callback_total"
    /\ UNCHANGED <<created, collections, fired>>
    /\ UNCHANGED ivars
    /\ UNCHANGED <<downloadQ, transcriptionQ, urlvars, dlvars>>
    /\ UNCHANGED <<tr_task, tr_n>>
    /\ UNCHANGED NotUrl

\* set_phase_total(source, TRANSCRIPTION, total_chunks)
TrCallbackTotal ==
    TrManagerStep("callback_total", "transcribe",
                  SetPhaseTotal(states, TrSource, "transcription", tr_total))

\* transcribe returned and the transcript (of m chunks) is written:
\* progress_manager.increment_phase_progress(task.source, TRANSCRIPTION, 1)
TrIncrement(m) ==
    /\ tr_pc = "transcribe"
    /\ states' = IncrementPhaseProgress(states, TrSource, "transcription", 1)
    /\ tr_n' = m
    /\ tr_total' = 0
    /\ tr_index' = 0
    /\ tr_pc' = "add_embedding"
    /\ UNCHANGED <<created, collections, fired>>
    /\ UNCHANGED ivars
    /\ UNCHANGED <<downloadQ, transcriptionQ, urlvars, dlvars>>
    /\ UNCHANGED tr_task
    /\ UNCHANGED NotUrl

\* generate_embeddings_for_audio_transcription: add_phase(source, EMBEDDING),
\* then the read_iter loop; "if not text_inputs: return 0"
TrAddEmbedding ==
    TrManagerStep("add_embedding",
                  IF tr_n = 0 THEN "idle" ELSE "total_embedding",
                  AddPhase(states, TrSource, "embedding", FALSE, 0))

\* progress_manager.set_phase_total(source, EMBEDDING, total_chunks)
TrTotalEmbedding ==
    TrManagerStep("total_embedding", "total_storing",
                  SetPhaseTotal(states, TrSource, "embedding", tr_n))

\* progress_manager.set_phase_total(source, STORING, total_chunks)
TrTotalStoring ==
    TrManagerStep("total_storing", "put_many",
                  SetPhaseTotal(states, TrSource, "storing", tr_n))

\* embedder_read_queue.put_many(text_inputs)
TrPutMany ==
    /\ tr_pc = "put_many"
    /\ embedderReadQ' = embedderReadQ \o ChunksOf(TrSource, tr_task[2], tr_n)
    /\ n_chunks' = [n_chunks EXCEPT ![tr_task] = tr_n]
    /\ tr_n' = 0
    /\ tr_pc' = "idle"
    /\ UNCHANGED mvars
    /\ UNCHANGED <<embedderWriteQ, embeddings, appended, ingests, raised>>
    /\ UNCHANGED <<downloadQ, transcriptionQ, urlvars, dlvars>>
    /\ UNCHANGED <<tr_task, tr_total, tr_index>>
    /\ UNCHANGED NotUrl

TranscriptionStep ==
    \/ TrGet
    \/ TrAddPhase
    \/ \E i \in 0..MaxChunks, n \in 1..MaxChunks : TrCallbackProgress(i, n)
    \/ TrCallbackTotal
    \/ \E m \in 0..MaxChunks : TrIncrement(m)
    \/ TrAddEmbedding
    \/ TrTotalEmbedding
    \/ TrTotalStoring
    \/ TrPutMany

UrlNext ==
    \/ \E u \in Urls : UrlExists(u)
    \/ UrlRequestStep
    \/ DownloadStep
    \/ TranscriptionStep

(***************************************************************************)
(* _get_extended_search_result_indices: the search hits of one source are  *)
(* widened by the context extension and overlapping windows are merged.    *)
(* A hit is a chunk position with the distance of its embedding to the     *)
(* query; distances are small integers and smaller than every window end.  *)
(***************************************************************************)
ChunkPool == {<<0, 20>>, <<100, 120>>, <<140, 160>>, <<300, 320>>}
Contexts == {10, 30}
Distances == 1..MaxDistance

TextInputs ==
    [start_index : {c[1] : c \in ChunkPool}, end_index : {c[2] : c \in ChunkPool},
     distance : Distances]

Hits == {t \in TextInputs : <<t.start_index, t.end_index>> \in ChunkPool}

Max(a, b) == IF a > b THEN a ELSE b

\* Python's order on the tuples (start, end, distance)
TupleLess(a, b) ==
    \/ a[1] < b[1]
    \/ a[1] = b[1] /\ a[2] < b[2]
    \/ a[1] = b[1] /\ a[2] = b[2] /\ a[3] < b[3]

RECURSIVE InsertSorted(_, _)
InsertSorted(w, sorted) ==
    IF sorted = <<>>
       THEN <<w>>
       ELSE IF TupleLess(w, Head(sorted))
               THEN <<w>> \o sorted
               ELSE <<Head(sorted)>> \o InsertSorted(w, Tail(sorted))

\* extended_indices.sort()
RECURSIVE SortIndices(_)
NoSort(ws) == ws
SortIndices(ws) ==
    IF ws = <<>> THEN <<>> ELSE InsertSorted(Head(ws), SortIndices(Tail(ws)))

\* the list comprehension: (max(0, start - context), end + context, distance)
ExtendedIndices(tis, ctx) ==
    [i \in 1..Len(tis) |->
        <<Max(0, tis[i].start_index - ctx), tis[i].end_index + ctx, tis[i].distance>>]

\* the loop "for start, end, distance in extended_indices[1:]"
RECURSIVE MergeLoop(_, _, _, _, _)
MergeLoop(rest, current_start, current_end, current_distance, merged) ==
    IF rest = <<>>
       THEN Append(merged, <<current_start, current_end, current_distance>>)
       ELSE LET start == Head(rest)[1]
                end == Head(rest)[2]
                distance == Head(rest)[3]
            IN  IF start <= current_end
                   THEN MergeLoop(Tail(rest), current_start,
                                  Max(Max(current_end, end),
                                      Min(current_distance, distance)),
                                  current_distance, merged)
                   ELSE MergeLoop(Tail(rest), start, end, distance,
                                  Append(merged, <<current_start, current_end, distance>>))

GetExtendedSearchResultIndices(tis, ctx) ==
    IF tis = <<>>
       THEN <<>>
       ELSE LET extended_indices == SortIndices(ExtendedIndices(tis, ctx))
            IN  MergeLoop(Tail(extended_indices), extended_indices[1][1],
                          extended_indices[1][2], extended_indices[1][3], <<>>)

MergeQuiet ==
    /\ text_inputs = <<>>
    /\ context_chars = 0
    /\ merged_indices = <<>>
    /\ mg_pc = "returned"

MergeInit ==
    /\ text_inputs \in UNION {[1..n -> Hits] : n \in 0..MaxWindows}
    /\ context_chars \in Contexts
    /\ merged_indices = <<>>
    /\ mg_pc = "call"

MergeCall ==
    /\ mg_pc = "call"
    /\ merged_indices' = GetExtendedSearchResultIndices(text_inputs, context_chars)
    /\ mg_pc' = "returned"
    /\ UNCHANGED <<text_inputs, context_chars>>
    /\ UNCHANGED NotMerge

MergeNext == MergeCall

\* No call of the function; the context extension is configured.
MergeContext ==
    /\ text_inputs = <<>>
    /\ context_chars \in Contexts
    /\ merged_indices = <<>>
    /\ mg_pc = "returned"

(***************************************************************************)
(* Search: search, deep search and most relevant files.  A query is a list *)
(* of non-blank lines, each cut into one or more chunks; the chunks go     *)
(* through the embedder and the storage worker into the "user-query"       *)
(* collection of the index, and the request then looks up the indexed      *)
(* query and searches the index with its vector.  The distance of a stored *)
(* chunk to the query is a property of the chunk (every line of the query  *)
(* is equally far from it); a stored query chunk is at distance 0.  Files  *)
(* are longer than every window that is read from them.                    *)
(***************************************************************************)
USER_QUERY_SOURCE == "user-query"

FileRowPool ==
    { [id |-> 1, collection |-> "s1", source |-> "s1", source_type |-> "LOCAL_TEXT_FILE",
       start_index |-> 0, end_index |-> 20, distance |-> 1],
      [id |-> 2, collection |-> "s1", source |-> "s1", source_type |-> "LOCAL_TEXT_FILE",
       start_index |-> 300, end_index |-> 320, distance |-> 3],
      [id |-> 3, collection |-> "s2", source |-> "s2", source_type |-> "LOCAL_TEXT_FILE",
       start_index |-> 100, end_index |-> 120, distance |-> 2],
      [id |-> 4, collection |-> "s2", source |-> "s2", source_type |-> "LOCAL_TEXT_FILE",
       start_index |-> 140, end_index |-> 160, distance |-> 2] }

FirstUuid == Cardinality(FileRowPool) + 1

RECURSIVE SeqSum(_)
SeqSum(q) == IF q = <<>> THEN 0 ELSE Head(q) + SeqSum(Tail(q))

\* The queries: the number of chunks of each non-blank line
Queries ==
    {q \in UNION {[1..n -> 1..MaxLineChunks] : n \in 1..MaxLines} :
        SeqSum(q) <= MaxQueryChunks}

\* The offsets of the pages of a search
Offsets == {p * ResultLimit : p \in 0..MaxPages}

\* The rows of the sources that have been ingested
RowsOf(srcs) == {r \in FileRowPool : r.collection \in srcs}

SearchInit ==
    /\ sq_pc = "idle"
    /\ sq_kind = "search"
    /\ sq_offset = 0
    /\ sq_sources = {}
    /\ query_ids = <<>>
    /\ next_uuid = FirstUuid
    /\ submitted = <<>>
    /\ searches = 0
    /\ sq_readQ = <<>>
    /\ sq_writeQ = <<>>
    /\ ss_pc = "idle"
    /\ ss_items = <<>>
    /\ handed = <<>>
    /\ ix_rows \in {RowsOf(srcs) : srcs \in SUBSET Sources}
    /\ ix_collections = {r.collection : r \in ix_rows}
    /\ sq_collected = <<>>
    /\ sq_returned = <<>>
    /\ sq_relevant = {}
    /\ sq_status = "none"

\* The progress manager while the searches run: empty, or holding the
\* IngestionState of a file "s1" whose single chunk is embedded and not stored.
IngestingFirstSource ==
    IncrementPhaseProgress(
        SetPhaseTotal(
            SetPhaseTotal(CreateState([s \in Sources |-> NoState], "s1", 1),
                          "s1", "embedding", 1),
            "s1", "storing", 1),
        "s1", "embedding", 1)

SearchProgressInit ==
    /\ states \in {[s \in Sources |-> NoState], IngestingFirstSource}
    /\ created = [s \in Sources |-> 0]
    /\ collections = [s \in Sources |-> "not_found"]
    /\ fired = [i \in Ingestions |-> [completed |-> 0, failed |-> 0]]

\* increment_phase_progress(data_source_id, phase, amount) for any key:
\* get_state is self._states.get(data_source_id), None for an unknown key.
IncrementFirstSource(st, key, ph, amount) ==
    IncrementPhaseProgress(st, "s1", ph, amount)
IncrementProgressOf(st, key, ph, amount) ==
    IF key \in DOMAIN st THEN IncrementPhaseProgress(st, key, ph, amount) ELSE st

\* Embedder.iter: "for source_id, count in batch.count_by_source_id().items():
\* increment_phase_progress(source_id, EMBEDDING, count)"; the source_id of a
\* query chunk is its query id, the string of a uuid4.
RECURSIVE CountEmbedded(_, _)
CountEmbedded(st, batch) ==
    IF batch = <<>>
       THEN st
       ELSE CountEmbedded(IncrementProgressOf(st, ToString(Head(batch).id),
                                              "embedding", 1),
                          Tail(batch))

\* run_continuous_storage after add_batch: increment_phase_progress(source,
\* STORING, n), and mark_as_completed(source) at 100%, whose callback and
\* removal need an IngestionState under the key.
CountStored(st, source, n) ==
    LET counted == IncrementProgressOf(st, source, "storing", n) IN
        IF source \in DOMAIN counted /\ PercentageAtLeast100(counted, source, "storing")
           THEN RemoveSourceState(counted, source)
           ELSE counted

SearchQuiet ==
    /\ sq_pc = "idle"
    /\ sq_kind = "search"
    /\ sq_offset = 0
    /\ sq_sources = {}
    /\ query_ids = <<>>
    /\ next_uuid = FirstUuid
    /\ submitted = <<>>
    /\ searches = 0
    /\ sq_readQ = <<>>
    /\ sq_writeQ = <<>>
    /\ ss_pc = "idle"
    /\ ss_items = <<>>
    /\ handed = <<>>
    /\ ix_rows = {}
    /\ ix_collections = {}
    /\ sq_collected = <<>>
    /\ sq_returned = <<>>
    /\ sq_relevant = {}
    /\ sq_status = "none"

\* The TextInputs of one line: every chunk of the line carries the line's
\* query_id as its "id"
LineInputs(query_id, n) ==
    [k \in 1..n |-> [id |-> query_id, source |-> USER_QUERY_SOURCE,
                     source_type |-> "user_query",
                     start_index |-> k - 1, end_index |-> k]]

\* _embed_user_query: "for line in query.split(...)": one uuid4 per line
RECURSIVE QueryInputs(_, _)
QueryInputs(lines, first_id) ==
    IF lines = <<>>
       THEN <<>>
       ELSE LineInputs(first_id, Head(lines)) \o QueryInputs(Tail(lines), first_id + 1)

\* A search, deep search or most-relevant-files request arrives:
\* _embed_user_query puts the TextInputs of the query on the embedder queue.
SearchCall(kind, lines, o, srcs) ==
    /\ sq_pc = "idle"
    /\ searches < MaxSearches
    /\ searches' = searches + 1
    /\ sq_kind' = kind
    /\ sq_offset' = o
    /\ sq_sources' = srcs
    /\ query_ids' = [i \in 1..Len(lines) |-> next_uuid + i - 1]
    /\ next_uuid' = next_uuid + Len(lines)
    /\ submitted' = QueryInputs(lines, next_uuid)
    /\ sq_readQ' = sq_readQ \o QueryInputs(lines, next_uuid)
    /\ sq_pc' = "wait"
    /\ sq_status' = "none"
    /\ UNCHANGED <<sq_writeQ, ss_pc, ss_items, handed, ix_collections, ix_rows,
                   sq_collected, sq_returned, sq_relevant>>
    /\ UNCHANGED NotSearch

\* _search_files(query, offset): the active data sources or None
SearchFilesCall ==
    \E lines \in Queries, o \in Offsets, srcs \in {{}, {"s1"}} :
        SearchCall("search", lines, o, srcs)

\* "if len(sources) > MAX_SOURCES_IN_DEEP_SEARCH.value:"
NeverTooMany(srcs) == FALSE
TooManySources(srcs) == Cardinality(srcs) > MAX_SOURCES_IN_DEEP_SEARCH

\* _deep_search returns {"status": "error", "error": "Too many sources: ..."}
DeepSearchError(srcs) ==
    /\ sq_pc = "idle"
    /\ searches < MaxSearches
    /\ searches' = searches + 1
    /\ sq_kind' = "deep"
    /\ sq_offset' = 0
    /\ sq_sources' = srcs
    /\ query_ids' = <<>>
    /\ submitted' = <<>>
    /\ sq_collected' = <<>>
    /\ sq_returned' = <<>>
    /\ sq_relevant' = {}
    /\ sq_status' = "error"
    /\ UNCHANGED <<sq_pc, next_uuid, sq_readQ, sq_writeQ, ss_pc, ss_items, handed,
                   ix_collections, ix_rows>>
    /\ UNCHANGED NotSearch

\* _deep_search(query, sources)
DeepSearchCall ==
    \E lines \in Queries,
       srcs \in {{"s1", "s2"}, {"s1", USER_QUERY_SOURCE}, {"s1", "s2", "s3", "s4"}} :
        IF TooManySources(srcs)
           THEN DeepSearchError(srcs)
           ELSE SearchCall("deep", lines, 0, srcs)

\* _most_relevant_files(query)
MostRelevantCall ==
    \E lines \in Queries, srcs \in {{}, {"s1"}} :
        SearchCall("relevant", lines, 0, srcs)

\* Embedder.iter on a batch of query chunks: read, vectorize, write (the
\* progress manager knows no source named by a query id)
SqEmbed ==
    /\ Len(sq_readQ) > 0
    /\ LET n == Min(BatchSize, Len(sq_readQ)) IN
          /\ states' = CountEmbedded(states, SubSeq(sq_readQ, 1, n))
          /\ sq_writeQ' = sq_writeQ \o SubSeq(sq_readQ, 1, n)
          /\ sq_readQ' = SubSeq(sq_readQ, n + 1, Len(sq_readQ))
    /\ UNCHANGED <<sq_pc, sq_kind, sq_offset, sq_sources, query_ids, next_uuid,
                   submitted, searches, ss_pc, ss_items, handed, ix_collections,
                   ix_rows, sq_collected, sq_returned, sq_relevant, sq_status>>
    /\ UNCHANGED NotSearchProgress

\* run_continuous_storage: text_inputs = read_queue.get_many(1000); all of
\* them have the source "user-query"
SsRead ==
    /\ ss_pc = "idle"
    /\ Len(sq_writeQ) > 0
    /\ ss_items' = sq_writeQ
    /\ sq_writeQ' = <<>>
    /\ ss_pc' = "exists"
    /\ UNCHANGED <<sq_pc, sq_kind, sq_offset, sq_sources, query_ids, next_uuid,
                   submitted, searches, sq_readQ, handed, ix_collections, ix_rows,
                   sq_collected, sq_returned, sq_relevant, sq_status>>
    /\ UNCHANGED NotSearch

\* "if not data_source_map.exists(source):"
SsExists ==
    /\ ss_pc = "exists"
    /\ ss_pc' = IF USER_QUERY_SOURCE \in ix_collections THEN "add_batch" ELSE "create"
    /\ UNCHANGED <<sq_pc, sq_kind, sq_offset, sq_sources, query_ids, next_uuid,
                   submitted, searches, sq_readQ, sq_writeQ, ss_items, handed,
                   ix_collections, ix_rows, sq_collected, sq_returned,
                   sq_relevant, sq_status>>
    /\ UNCHANGED NotSearch

\* data_source_map.create(source, source_type): INSERT INTO collections
SsCreate ==
    /\ ss_pc = "create"
    /\ ix_collections' = ix_collections \cup {USER_QUERY_SOURCE}
    /\ ss_pc' = "add_batch"
    /\ UNCHANGED <<sq_pc, sq_kind, sq_offset, sq_sources, query_ids, next_uuid,
                   submitted, searches, sq_readQ, sq_writeQ, ss_items, handed,
                   ix_rows, sq_collected, sq_returned, sq_relevant, sq_status>>
    /\ UNCHANGED NotSearch

\* SqliteEmbeddingStore.add_batch: the row of a TextInput
EmbeddingRow(ti, name) ==
    [id |-> ti.id, collection |-> name, source |-> ti.source,
     source_type |-> ti.source_type, start_index |-> ti.start_index,
     end_index |-> ti.end_index, distance |-> 0]

\* insert_embeddings: executemany of INSERT into a table whose id is the
\* PRIMARY KEY; the rows before a duplicate id stay in the connection
RECURSIVE InsertEmbeddings(_, _, _)
InsertEmbeddings(rows, items, name) ==
    IF items = <<>>
       THEN [rows |-> rows, ok |-> TRUE]
       ELSE IF \E r \in rows : r.id = Head(items).id
               THEN [rows |-> rows, ok |-> FALSE]
               ELSE InsertEmbeddings(rows \cup {EmbeddingRow(Head(items), name)},
                                     Tail(items), name)

\* data_source_map.get(source).add_batch(valid_text_inputs) and the calls of
\* the progress manager after it, which knows no source "user-query"; an
\* IntegrityError leaves the loop and ends the storage thread
SsAddBatch ==
    /\ ss_pc = "add_batch"
    /\ handed' = handed \o [i \in 1..Len(ss_items) |-> ss_items[i].id]
    /\ LET r == InsertEmbeddings(ix_rows, ss_items, USER_QUERY_SOURCE) IN
          /\ ix_rows' = r.rows
          /\ ss_pc' = IF r.ok THEN "idle" ELSE "crashed"
          /\ states' = IF r.ok
                           THEN CountStored(states, Head(ss_items).source,
                                            Len(ss_items))
                           ELSE states
    /\ ss_items' = <<>>
    /\ UNCHANGED <<sq_pc, sq_kind, sq_offset, sq_sources, query_ids, next_uuid,
                   submitted, searches, sq_readQ, sq_writeQ, ix_collections,
                   sq_collected, sq_returned, sq_relevant, sq_status>>
    /\ UNCHANGED NotSearchProgress

\* The order of a nearest-neighbour query: by distance
RowLess(a, b) == a.distance < b.distance \/ (a.distance = b.distance /\ a.id < b.id)

RECURSIVE Nearest(_, _)
Nearest(rows, k) ==
    IF rows = {} \/ k = 0
       THEN <<>>
       ELSE LET r == CHOOSE x \in rows : \A y \in rows : x = y \/ RowLess(x, y)
            IN  <<r>> \o Nearest(rows \ {r}, k - 1)

\* search_embeddings: "collection <> 'user-query'", the sources clause, LIMIT k
SearchEmbeddings(rows, k, srcs) ==
    Nearest({r \in rows : /\ r.collection # USER_QUERY_SOURCE
                          /\ (srcs = {} \/ r.collection \in srcs)}, k)

\* The keys of results_by_source, in the order of their first hit
RECURSIVE HitSources(_)
HitSources(hits) ==
    IF hits = <<>>
       THEN <<>>
       ELSE <<Head(hits).source>>
               \o HitSources(SelectSeq(Tail(hits), LAMBDA h : h.source # Head(hits).source))

\* The SearchResults of one source: one per merged window, none for a source
\* of type USER_QUERY
ResultsOfSource(hits, s, ctx) ==
    LET results_for_source == SelectSeq(hits, LAMBDA h : h.source = s)
        windows == GetExtendedSearchResultIndices(results_for_source, ctx)
    IN  IF results_for_source[1].source_type = "user_query"
           THEN <<>>
           ELSE [i \in 1..Len(windows) |->
                    [source |-> s, source_type |-> results_for_source[1].source_type,
                     start_index |-> windows[i][1], end_index |-> windows[i][2],
                     distance |-> windows[i][3]]]

RECURSIVE ResultsOfSources(_, _, _)
ResultsOfSources(hits, ss, ctx) ==
    IF ss = <<>>
       THEN <<>>
       ELSE ResultsOfSource(hits, Head(ss), ctx) \o ResultsOfSources(hits, Tail(ss), ctx)

\* _search_vector_in_data_source
SearchVectorInDataSource(rows, srcs, top_k, ctx) ==
    LET hits == SearchEmbeddings(rows, top_k, srcs)
    IN  ResultsOfSources(hits, HitSources(hits), ctx)

\* results[a : b]
Slice(s, a, b) == SubSeq(s, a + 1, Min(b, Len(s)))

\* sorted(results, key=lambda x: x.distance): stable
RECURSIVE InsertByDistance(_, _)
InsertByDistance(x, sorted) ==
    IF sorted = <<>>
       THEN <<x>>
       ELSE IF x.distance <= Head(sorted).distance
               THEN <<x>> \o sorted
               ELSE <<Head(sorted)>> \o InsertByDistance(x, Tail(sorted))

RECURSIVE SortByDistance(_)
NoSortByDistance(s) == s
SortByDistance(s) ==
    IF s = <<>> THEN <<>> ELSE InsertByDistance(Head(s), SortByDistance(Tail(s)))

\* search, after the wait: "for query_id in query_ids: results.extend(...)"
RECURSIVE CollectResults(_, _, _, _, _)
CollectResults(n, rows, srcs, top_k, ctx) ==
    IF n = 0
       THEN <<>>
       ELSE SearchVectorInDataSource(rows, srcs, top_k, ctx)
               \o CollectResults(n - 1, rows, srcs, top_k, ctx)

\* search: results[offset : offset + limit], sorted by distance
Search(collected, limit, offset) ==
    SortByDistance(Slice(collected, offset, offset + limit))

\* _search_files: search_results[offset : offset + SEARCH_RESULT_LIMIT.value]
SearchFiles(collected, offset) ==
    Slice(Search(collected, ResultLimit, offset), offset, offset + ResultLimit)

\* _deep_search: search_results[: DEEP_SEARCH_RESULT_LIMIT.value]
DeepSearch(collected) ==
    Slice(Search(collected, DeepResultLimit, 0), 0, DeepResultLimit)

\* search_relevant_collections: the hits under the distance threshold outside
\* 'user-query', grouped by collection, LIMIT k
SearchRelevantCollectionsUnfiltered(rows, k, srcs) ==
    LET hits == {r \in rows : srcs = {} \/ r.collection \in srcs}
        groups == {[source |-> c,
                     distance |-> CHOOSE d \in {r.distance : r \in {x \in hits : x.collection = c}} :
                                     \A r \in {x \in hits : x.collection = c} : d <= r.distance]
                      : c \in {r.collection : r \in hits}}
    IN  IF Cardinality(groups) <= k
           THEN groups
           ELSE CHOOSE g \in SUBSET groups : Cardinality(g) = k
SearchRelevantCollections(rows, k, srcs) ==
    LET hits == {r \in rows : /\ r.collection # USER_QUERY_SOURCE
                              /\ (srcs = {} \/ r.collection \in srcs)}
        groups == {[source |-> c,
                     distance |-> CHOOSE d \in {r.distance : r \in {x \in hits : x.collection = c}} :
                                     \A r \in {x \in hits : x.collection = c} : d <= r.distance]
                      : c \in {r.collection : r \in hits}}
    IN  IF Cardinality(groups) <= k
           THEN groups
           ELSE CHOOSE g \in SUBSET groups : Cardinality(g) = k

\* get_text_input_by_id(query_id, USER_QUERY_SOURCE) is not None
AlwaysReady(id) == TRUE
QueryReady(id) ==
    \E r \in ix_rows : r.id = id /\ r.collection = USER_QUERY_SOURCE

\* _wait_for_embeddings returned True: the request searches the index with
\* each query vector and returns
SqSearch ==
    /\ sq_pc = "wait"
    /\ \A i \in 1..Len(query_ids) : QueryReady(query_ids[i])
    /\ LET limit == IF sq_kind = "deep" THEN DeepResultLimit ELSE ResultLimit
           collected == CollectResults(Len(query_ids), ix_rows, sq_sources,
                                       limit + sq_offset, context_chars)
       IN  IF sq_kind = "relevant"
              THEN /\ sq_relevant' = SearchRelevantCollections(ix_rows, ResultLimit, sq_sources)
                   /\ sq_collected' = <<>>
                   /\ sq_returned' = <<>>
              ELSE /\ sq_collected' = collected
                   /\ sq_returned' = IF sq_kind = "deep"
                                        THEN DeepSearch(collected)
                                        ELSE SearchFiles(collected, sq_offset)
                   /\ sq_relevant' = {}
    /\ sq_status' = "success"
    /\ sq_pc' = "idle"
    /\ UNCHANGED <<sq_kind, sq_offset, sq_sources, query_ids, next_uuid, submitted,
                   searches, sq_readQ, sq_writeQ, ss_pc, ss_items, handed,
                   ix_collections, ix_rows>>
    /\ UNCHANGED NotSearch

\* _wait_for_embeddings returned False: MCPError("Timeout waiting for embeddings")
SqTimeout ==
    /\ sq_pc = "wait"
    /\ \E i \in 1..Len(query_ids) : ~QueryReady(query_ids[i])
    /\ sq_status' = "timeout"
    /\ sq_collected' = <<>>
    /\ sq_returned' = <<>>
    /\ sq_relevant' = {}
    /\ sq_pc' = "idle"
    /\ UNCHANGED <<sq_kind, sq_offset, sq_sources, query_ids, next_uuid, submitted,
                   searches, sq_readQ, sq_writeQ, ss_pc, ss_items, handed,
                   ix_collections, ix_rows>>
    /\ UNCHANGED NotSearch

\* SqliteDataSourceMap.list_sources
ListSources == ix_collections

\* _list_data_sources_files: the listed source paths
ListDataSourcesFiles == {s \in ListSources : s # USER_QUERY_SOURCE}

SearchNext ==
    \/ SearchFilesCall
    \/ DeepSearchCall
    \/ MostRelevantCall
    \/ SqEmbed
    \/ SsRead
    \/ SsExists
    \/ SsCreate
    \/ SsAddBatch
    \/ SqSearch
    \/ SqTimeout

(***************************************************************************)
(* PhaseProgress.increment called from several threads on one              *)
(* PhaseProgress.  "with self._lock: self.current += amount" is four steps *)
(* of the calling thread: the lock is taken, self.current is loaded, the   *)
(* sum is stored, the lock is released.                                    *)
(***************************************************************************)
IncThreads == {"t1", "t2", "t3"}

\* threading.Lock.acquire: the thread goes on when no thread holds the lock
LockIgnored(owner) == TRUE
LockFree(owner) == owner = "free"

IncrementInit ==
    /\ pp_lock = "free"
    /\ pp_initial \in 0..1
    /\ pp_current = pp_initial
    /\ pp_pc = [t \in IncThreads |-> "idle"]
    /\ pp_amount = [t \in IncThreads |-> 0]
    /\ pp_loaded = [t \in IncThreads |-> 0]
    /\ pp_calls = [t \in IncThreads |-> 0]
    /\ pp_added = 0

IncrementQuiet ==
    /\ pp_lock = "free"
    /\ pp_initial = 0
    /\ pp_current = 0
    /\ pp_pc = [t \in IncThreads |-> "idle"]
    /\ pp_amount = [t \in IncThreads |-> 0]
    /\ pp_loaded = [t \in IncThreads |-> 0]
    /\ pp_calls = [t \in IncThreads |-> 0]
    /\ pp_added = 0

\* increment(amount) is called.
IncCall(t, amount) ==
    /\ pp_pc[t] = "idle"
    /\ pp_calls[t] < MaxIncrements
    /\ pp_calls' = [pp_calls EXCEPT ![t] = @ + 1]
    /\ pp_amount' = [pp_amount EXCEPT ![t] = amount]
    /\ pp_pc' = [pp_pc EXCEPT ![t] = "lock"]
    /\ UNCHANGED <<pp_lock, pp_initial, pp_current, pp_loaded, pp_added>>
    /\ UNCHANGED NotIncrement

\* "with self._lock:"
IncAcquire(t) ==
    /\ pp_pc[t] = "lock"
    /\ LockFree(pp_lock)
    /\ pp_lock' = t
    /\ pp_pc' = [pp_pc EXCEPT ![t] = "read"]
    /\ UNCHANGED <<pp_initial, pp_current, pp_amount, pp_loaded, pp_calls, pp_added>>
    /\ UNCHANGED NotIncrement

\* "self.current += amount": the load of self.current
IncLoad(t) ==
    /\ pp_pc[t] = "read"
    /\ pp_loaded' = [pp_loaded EXCEPT ![t] = pp_current]
    /\ pp_pc' = [pp_pc EXCEPT ![t] = "write"]
    /\ UNCHANGED <<pp_lock, pp_initial, pp_current, pp_amount, pp_calls, pp_added>>
    /\ UNCHANGED NotIncrement

\* "self.current += amount": the store of the sum
IncStore(t) ==
    /\ pp_pc[t] = "write"
    /\ pp_current' = pp_loaded[t] + pp_amount[t]
    /\ pp_added' = pp_added + pp_amount[t]
    /\ pp_pc' = [pp_pc EXCEPT ![t] = "unlock"]
    /\ UNCHANGED <<pp_lock, pp_initial, pp_amount, pp_loaded, pp_calls>>
    /\ UNCHANGED NotIncrement

\* The end of the with block releases the lock.
IncRelease(t) ==
    /\ pp_pc[t] = "unlock"
    /\ pp_lock' = IF pp_lock = t THEN "free" ELSE pp_lock
    /\ pp_pc' = [pp_pc EXCEPT ![t] = "idle"]
    /\ UNCHANGED <<pp_initial, pp_current, pp_amount, pp_loaded, pp_calls, pp_added>>
    /\ UNCHANGED NotIncrement

IncrementNext ==
    \/ \E t \in IncThreads, amount \in 1..MaxAmount : IncCall(t, amount)
    \/ \E t \in IncThreads : IncAcquire(t)
    \/ \E t \in IncThreads : IncLoad(t)
    \/ \E t \in IncThreads : IncStore(t)
    \/ \E t \in IncThreads : IncRelease(t)

(***************************************************************************)
(* Embedder.iter between embedderReadQ and embedderWriteQ.  A TextInput is *)
(* a record; its vector is <<>> while _vec is None.  The producers use the *)
(* read queue far below its maxsize; the write queue has maxsize MaxSize,  *)
(* and its put_many meets Full as in the BulkQueue section: with a retry   *)
(* left it waits for ever for the lock it holds, without one it raises.    *)
(***************************************************************************)
EmbedTexts == {<<"a">>, <<"b", "b">>}
NoVector == <<>>

TextInput(id, text) == [id |-> id, text |-> text, vec |-> NoVector]

\* MockVectorizer: one vector per input, made from the length of its text
Encode(batch) == [i \in 1..Len(batch) |-> <<Len(batch[i].text)>>]

\* TextBatch.set_vectors: "for input, vec in zip(self.inputs, vecs): input._vec = vec"
KeepVectors(batch, vecs) == batch
SetVectors(batch, vecs) ==
    [i \in 1..Len(batch) |->
        IF i <= Len(vecs) THEN [batch[i] EXCEPT !.vec = vecs[i]] ELSE batch[i]]

EmbedInit ==
    /\ e_readQ = <<>>
    /\ e_writeQ = <<>>
    /\ e_retry_limit \in 0..MaxRetryCount
    /\ e_pc = "idle"
    /\ e_batch = <<>>
    /\ e_read = <<>>
    /\ e_made = 0
    /\ e_out = <<>>
    /\ e_done = <<>>

EmbedQuiet ==
    /\ e_readQ = <<>>
    /\ e_writeQ = <<>>
    /\ e_retry_limit = 0
    /\ e_pc = "idle"
    /\ e_batch = <<>>
    /\ e_read = <<>>
    /\ e_made = 0
    /\ e_out = <<>>
    /\ e_done = <<>>

\* A producer's put_many of one new TextInput on the read queue.
EmbedPut ==
    /\ e_made < MaxEmbedItems
    /\ \E text \in EmbedTexts :
          e_readQ' = Append(e_readQ, TextInput(e_made + 1, text))
    /\ e_made' = e_made + 1
    /\ UNCHANGED <<e_writeQ, e_retry_limit, e_pc, e_batch, e_read, e_out, e_done>>
    /\ UNCHANGED states
    /\ UNCHANGED NotEmbed

\* "batch = self._transport.read()": get_many(batch_size) on the read queue;
\* an empty batch ends the iteration.
IterRead ==
    /\ e_pc = "idle"
    /\ LET n == Min(EmbedBatchSize, Len(e_readQ)) IN
          /\ e_batch' = SubSeq(e_readQ, 1, n)
          /\ e_read' = SubSeq(e_readQ, 1, n)
          /\ e_readQ' = SubSeq(e_readQ, n + 1, Len(e_readQ))
          /\ e_pc' = IF n = 0 THEN "idle" ELSE "vectorize"
    /\ UNCHANGED <<e_writeQ, e_retry_limit, e_made, e_out, e_done>>
    /\ UNCHANGED states
    /\ UNCHANGED NotEmbed

\* "self._vectorizer.vectorize(batch)" and the increment_phase_progress loop;
\* every TextInput of this specification has source_id "s1".
IterVectorize ==
    /\ e_pc = "vectorize"
    /\ e_batch' = SetVectors(e_batch, Encode(e_batch))
    /\ states' = IncrementProgressOf(states, "s1", "embedding", Len(e_batch))
    /\ e_pc' = "write"
    /\ UNCHANGED <<e_readQ, e_writeQ, e_retry_limit, e_read, e_made, e_out, e_done>>
    /\ UNCHANGED NotEmbed

\* vectorize raises: iter logs and re-raises, nothing is written.
IterVectorizeRaises ==
    /\ e_pc = "vectorize"
    /\ e_batch' = <<>>
    /\ e_read' = <<>>
    /\ e_pc' = "idle"
    /\ UNCHANGED <<e_readQ, e_writeQ, e_retry_limit, e_made, e_out, e_done>>
    /\ UNCHANGED states
    /\ UNCHANGED NotEmbed

\* "self._transport.write(batch)": put_many(batch.inputs) on the write queue,
\* under the lock that get_many takes.  The items are placed one by one until
\* Full; then put_many raises (and so does iter) or waits for ever.
IterWrite ==
    /\ e_pc = "write"
    /\ LET room == MaxSize - Len(e_writeQ)
           n == Min(room, Len(e_batch))
       IN  /\ e_writeQ' = e_writeQ \o SubSeq(e_batch, 1, n)
           /\ e_out' = e_out \o SubSeq(e_batch, 1, n)
           /\ IF n = Len(e_batch)
                 THEN /\ e_done' = Append(e_done, e_read)
                      /\ e_pc' = "idle"
                 ELSE /\ e_pc' = IF e_retry_limit > 0 THEN "blocked" ELSE "idle"
                      /\ UNCHANGED e_done
    /\ e_batch' = <<>>
    /\ e_read' = <<>>
    /\ UNCHANGED <<e_readQ, e_retry_limit, e_made>>
    /\ UNCHANGED states
    /\ UNCHANGED NotEmbed

\* run_continuous_storage's get_many(1000) on the write queue.
EmbedStorageGet ==
    /\ e_pc # "blocked"
    /\ e_writeQ # <<>>
    /\ e_writeQ' = <<>>
    /\ UNCHANGED <<e_readQ, e_retry_limit, e_pc, e_batch, e_read, e_made, e_out, e_done>>
    /\ UNCHANGED states
    /\ UNCHANGED NotEmbed

EmbedNext ==
    \/ EmbedPut
    \/ IterRead
    \/ IterVectorize
    \/ IterVectorizeRaises
    \/ IterWrite
    \/ EmbedStorageGet

(***************************************************************************)
(* The chunkers: TextReader.read_iter with _split_text_chunk, and            *)
(* _cut_line_into_chunks as _embed_user_query applies it to the lines of a   *)
(* query.  A text is a sequence of characters; Python's text[a:b] is         *)
(* SubSeq(text, a + 1, b).                                                   *)
(***************************************************************************)
Chars == {"a", " ", "\t", "\n"}
\* str.isspace() on the characters of the model
Whitespace == {" ", "\t", "\n"}
Texts == UNION {[1..n -> Chars] : n \in 0..MaxTextLen}

PySlice(t, a, b) == SubSeq(t, a + 1, b)

RECURSIVE LStrip(_)
LStrip(t) == IF t # <<>> /\ Head(t) \in Whitespace THEN LStrip(Tail(t)) ELSE t
RECURSIVE RStrip(_)
RStrip(t) ==
    IF t # <<>> /\ t[Len(t)] \in Whitespace
       THEN RStrip(SubSeq(t, 1, Len(t) - 1))
       ELSE t
\* str.strip()
Strip(t) == LStrip(RStrip(t))

\* line.rstrip("\n\r"); the text mode of open() leaves no "\r" at a line end
RECURSIVE RStripNewlines(_)
RStripNewlines(t) ==
    IF t # <<>> /\ t[Len(t)] = "\n"
       THEN RStripNewlines(SubSeq(t, 1, Len(t) - 1))
       ELSE t

\* text.rfind(" ", lo, hi)
RFindSpace(t, lo, hi) ==
    LET found == {i \in lo..(hi - 1) : t[i + 1] = " "} IN
        IF found = {} THEN -1 ELSE CHOOSE i \in found : \A j \in found : j <= i

\* "while start_pos < len(text) and text[start_pos].isspace(): start_pos += 1"
RECURSIVE SkipSpaces(_, _)
SkipSpaces(t, pos) ==
    IF pos < Len(t) /\ t[pos + 1] \in Whitespace THEN SkipSpaces(t, pos + 1) ELSE pos

\* The number of characters before the first "\n" of a non-empty text
RECURSIVE BeforeNewline(_)
BeforeNewline(t) ==
    IF t = <<>> \/ Head(t) = "\n" THEN 0 ELSE 1 + BeforeNewline(Tail(t))

\* "for line in file": the next line, with its "\n" if it has one
FileLine(rest) == SubSeq(rest, 1, Min(BeforeNewline(rest) + 1, Len(rest)))

\* sub in seg
Contains(seg, sub) ==
    \E i \in 0..(Len(seg) - Len(sub)) : SubSeq(seg, i + 1, i + Len(sub)) = sub

TextChunk(start_index, end_index, text) ==
    [start_index |-> start_index, end_index |-> end_index, text |-> text]

ChunkInit ==
    /\ ck_kind \in {"reader", "query"}
    /\ ck_file \in Texts
    /\ ck_max \in 1..MaxChunkSize
    /\ ck_pc = "line"
    /\ ck_rest = ck_file
    /\ ck_char_index = 0
    /\ ck_line = <<>>
    /\ ck_origin = 0
    /\ ck_start_pos = 0
    /\ ck_chunks = <<>>

ChunkQuiet ==
    /\ ck_kind = "reader"
    /\ ck_file = <<>>
    /\ ck_max = 1
    /\ ck_pc = "done"
    /\ ck_rest = <<>>
    /\ ck_char_index = 0
    /\ ck_line = <<>>
    /\ ck_origin = 0
    /\ ck_start_pos = 0
    /\ ck_chunks = <<>>

\* One turn of read_iter's "for line in file", up to the call of
\* _split_text_chunk, whose first branch yields a chunk within the limit as it is.
ReadIterLine ==
    /\ ck_kind = "reader"
    /\ ck_pc = "line"
    /\ ck_rest # <<>>
    /\ LET line == FileLine(ck_rest)
           line_text == RStripNewlines(line)
       IN  /\ ck_rest' = SubSeq(ck_rest, Len(line) + 1, Len(ck_rest))
           /\ ck_char_index' = ck_char_index + Len(line)
           /\ IF Strip(line) = <<>>
                 THEN UNCHANGED <<ck_pc, ck_line, ck_origin, ck_start_pos, ck_chunks>>
                 ELSE IF Len(line_text) <= ck_max
                 THEN /\ ck_chunks' = Append(ck_chunks,
                             TextChunk(ck_char_index, ck_char_index + Len(line_text),
                                       line_text))
                      /\ UNCHANGED <<ck_pc, ck_line, ck_origin, ck_start_pos>>
                 ELSE /\ ck_pc' = "split"
                      /\ ck_line' = line_text
                      /\ ck_origin' = ck_char_index
                      /\ ck_start_pos' = 0
                      /\ UNCHANGED ck_chunks
    /\ UNCHANGED <<ck_kind, ck_file, ck_max>>
    /\ UNCHANGED NotChunk

\* One turn of _embed_user_query's "for line in query.split(...)": the call
\* _cut_line_into_chunks(line), up to its while loop.
CutQueryLine ==
    /\ ck_kind = "query"
    /\ ck_pc = "line"
    /\ ck_rest # <<>>
    /\ LET line == SubSeq(ck_rest, 1, BeforeNewline(ck_rest))
       IN  /\ ck_rest' = SubSeq(ck_rest, Len(line) + 2, Len(ck_rest))
           /\ IF Strip(line) = <<>>
                 THEN UNCHANGED <<ck_pc, ck_line, ck_origin, ck_start_pos, ck_chunks>>
                 ELSE IF Len(line) <= ck_max
                 THEN /\ ck_chunks' = Append(ck_chunks,
                             TextChunk(0, Len(line), Strip(line)))
                      /\ UNCHANGED <<ck_pc, ck_line, ck_origin, ck_start_pos>>
                 ELSE /\ ck_pc' = "split"
                      /\ ck_line' = line
                      /\ ck_origin' = 0
                      /\ ck_start_pos' = 0
                      /\ UNCHANGED ck_chunks
    /\ UNCHANGED <<ck_kind, ck_file, ck_max, ck_char_index>>
    /\ UNCHANGED NotChunk

\* "end_pos = min(start_pos + chunk_size_max, len(text))"
NoWindow(start_pos, size, length) == length
WindowEnd(start_pos, size, length) == Min(start_pos + size, length)

\* "chunk_start = original_start + start_pos", and chunk_end likewise
RelativeIndex(origin, pos) == pos
ChunkIndex(origin, pos) == origin + pos

\* One test of "while start_pos < len(text):" and the turn that follows it.
\* The loop of _cut_line_into_chunks is the same, on line, current_pos,
\* chunk_end and base_index.
SplitStep ==
    /\ ck_pc = "split"
    /\ LET length == Len(ck_line)
           window == WindowEnd(ck_start_pos, ck_max, length)
           last_space == RFindSpace(ck_line, ck_start_pos, window)
           end_pos == IF window < length /\ last_space > ck_start_pos
                         THEN last_space
                         ELSE window
           chunk_text == Strip(PySlice(ck_line, ck_start_pos, end_pos))
       IN  IF ck_start_pos < length
              THEN /\ ck_chunks' =
                         IF chunk_text # <<>>
                            THEN Append(ck_chunks,
                                        TextChunk(ChunkIndex(ck_origin, ck_start_pos),
                                                  ChunkIndex(ck_origin, end_pos),
                                                  chunk_text))
                            ELSE ck_chunks
                   /\ ck_start_pos' = SkipSpaces(ck_line, end_pos)
                   /\ UNCHANGED ck_pc
              ELSE /\ ck_pc' = "line"
                   /\ UNCHANGED <<ck_chunks, ck_start_pos>>
    /\ UNCHANGED <<ck_kind, ck_file, ck_max, ck_rest, ck_char_index, ck_line, ck_origin>>
    /\ UNCHANGED NotChunk

\* The loop over the lines has reached the end of the text.
ChunkEnd ==
    /\ ck_pc = "line"
    /\ ck_rest = <<>>
    /\ ck_pc' = "done"
    /\ UNCHANGED <<ck_kind, ck_file, ck_max, ck_rest, ck_char_index, ck_line,
                   ck_origin, ck_start_pos, ck_chunks>>
    /\ UNCHANGED NotChunk

ChunkNext ==
    \/ ReadIterLine
    \/ CutQueryLine
    \/ SplitStep
    \/ ChunkEnd

(***************************************************************************)
(* Specifications                                                          *)
(***************************************************************************)
QueueQuiet ==
    /\ QueueInit
    /\ retry_limit = 0

InitQueue == QueueInit /\ WorkerInit /\ ProgressInit /\ ClientInit /\ PipelineInit /\ UrlInit /\ MergeQuiet /\ SearchQuiet /\ ChunkQuiet /\ EmbedQuiet /\ IncrementQuiet
InitWorker == QueueQuiet /\ WorkerInit /\ ProgressInit /\ ClientInit /\ PipelineInit /\ UrlInit /\ MergeQuiet /\ SearchQuiet /\ ChunkQuiet /\ EmbedQuiet /\ IncrementQuiet
InitPipeline == QueueQuiet /\ WorkerInit /\ ProgressInit /\ ClientInit /\ PipelineInit /\ UrlInit /\ MergeQuiet /\ SearchQuiet /\ ChunkQuiet /\ EmbedQuiet /\ IncrementQuiet
InitUrl == QueueQuiet /\ WorkerInit /\ ProgressInit /\ ClientInit /\ PipelineInit /\ UrlInit /\ MergeQuiet /\ SearchQuiet /\ ChunkQuiet /\ EmbedQuiet /\ IncrementQuiet
InitMerge == QueueQuiet /\ WorkerInit /\ ProgressInit /\ ClientInit /\ PipelineInit /\ UrlInit /\ MergeInit /\ SearchQuiet /\ ChunkQuiet /\ EmbedQuiet /\ IncrementQuiet
InitSearch == QueueQuiet /\ WorkerInit /\ SearchProgressInit /\ ClientInit /\ PipelineInit /\ UrlInit /\ MergeContext /\ SearchInit /\ ChunkQuiet /\ EmbedQuiet /\ IncrementQuiet
InitProgress == QueueQuiet /\ WorkerInit /\ ProgressInit /\ ClientInit /\ PipelineInit /\ UrlInit /\ MergeQuiet /\ SearchQuiet /\ ChunkQuiet /\ EmbedQuiet /\ IncrementQuiet

InitChunk == QueueQuiet /\ WorkerInit /\ ProgressInit /\ ClientInit /\ PipelineInit /\ UrlInit /\ MergeQuiet /\ SearchQuiet /\ ChunkInit /\ EmbedQuiet /\ IncrementQuiet

\* The chunkers run in the thread that called them, which goes on while it can.
SpecChunk == InitChunk /\ [][ChunkNext]_vars /\ WF_vars(ChunkNext)

InitEmbed == QueueQuiet /\ WorkerInit /\ SearchProgressInit /\ ClientInit /\ PipelineInit /\ UrlInit /\ MergeQuiet /\ SearchQuiet /\ ChunkQuiet /\ EmbedInit /\ IncrementQuiet

SpecEmbed == InitEmbed /\ [][EmbedNext]_vars

InitIncrement == QueueQuiet /\ WorkerInit /\ ProgressInit /\ ClientInit /\ PipelineInit /\ UrlInit /\ MergeQuiet /\ SearchQuiet /\ ChunkQuiet /\ EmbedQuiet /\ IncrementInit

SpecIncrement == InitIncrement /\ [][IncrementNext]_vars

\* The progress manager with callers of every method that updates a state.
SpecProgressSetter == InitProgress /\ [][ProgressSetterNext]_vars

SpecDelete == InitPipeline /\ [][DeleteNext]_vars

\* The request's executor thread and the two worker threads are
\* operating-system threads: each of them goes on while it has a step to take.
SpecPipelineFair ==
    /\ InitPipeline
    /\ [][PipelineNext]_vars
    /\ WF_vars(CoordinatorStep)
    /\ WF_vars(EmbedderStep)
    /\ WF_vars(StorageStep)

SpecQueue == InitQueue /\ [][QueueNext]_vars

SpecWorker == InitWorker /\ [][WorkerNext]_vars

\* The worker with a vectorizer that may raise on a batch.
SpecWorkerRaise == InitWorker /\ [][WorkerRaiseNext]_vars

SpecProgress == InitProgress /\ [][ProgressNext]_vars

SpecPipeline == InitPipeline /\ [][PipelineNext]_vars

SpecUrl == InitUrl /\ [][UrlNext]_vars

SpecMerge == InitMerge /\ [][MergeNext]_vars

SpecSearch == InitSearch /\ [][SearchNext]_vars

\* The worker with callers of stop(); the worker thread, once it can take a
\* step, eventually takes it.
SpecWorkerStop == InitWorker /\ [][WorkerStopNext]_vars /\ WF_vars(WorkerStep)

\* Threads are operating-system threads: a thread that can take a step
\* eventually takes it.
SpecWorkerFair ==
    /\ SpecWorker
    /\ WF_vars(WorkerStep)
    /\ WF_vars(\E p \in WProducers : PutEnqueue(p))

(***************************************************************************)
(* Claims about the BulkQueue                                              *)
(***************************************************************************)
PutCalls == DOMAIN call_len
PlacedOf(pc) == {i \in 1..Len(placed) : placed[i][1] = pc[1] /\ placed[i][2] = pc[2]}
Contiguous(S) == \A i \in S, j \in S : \A k \in i..j : k \in S

\* C1: at every bulk-operation boundary (no put_many or get_many holds the
\* lock) each put_many call has placed either all of its items, next to each
\* other in queue order, or none of them.
C1_AllOrNothing ==
    lock = "free" =>
        \A pc \in PutCalls :
            /\ Cardinality(PlacedOf(pc)) \in {0, call_len[pc]}
            /\ Contiguous(PlacedOf(pc))

\* C2: a put_many that found the queue full never blocks forever: it is never
\* left waiting for a lock that only itself could release.
C2_PutManyNeverBlocksForever ==
    \A p \in Producers : ~(bq_pc[p] = "lock" /\ lock = p)

(***************************************************************************)
(* Claims about the SelfTerminatingThreadManager                           *)
(***************************************************************************)
\* C3: a put whose wake hook found the worker shut down on idle timeout leaves
\* a running worker thread (alive and inside its loop while the item waits),
\* and that worker goes on to consume the item.
C3_PutAfterIdleShutdownRevives ==
    \A x \in WItems :
        /\ [](x \in revived /\ x \notin consumed
                => w_thread = "alive" /\ w_pc \notin {"exit", "exit_idle", "off"})
        /\ (x \in revived) ~> (x \in consumed)

C3_Witness ==
    \E x \in WItems : x \in revived /\ x \in consumed /\ w_thread = "alive"

(***************************************************************************)
(* Claims about the SourceIngestionProgressManager                         *)
(***************************************************************************)
\* A mark_as_* call that fetched the IngestionState i is still running.
MarkInProgress(i) ==
    \E t \in Clients :
        /\ h_pc[t] \in {"callback", "remove"}
        /\ h_src[t] = i[1]
        /\ h_ref[t].gen = i[2]

CallbacksFired(i) == fired[i].completed + fired[i].failed

\* C4: for every IngestionState created with callbacks, under any
\* interleaving of mark_as_completed and mark_as_failed calls on its source,
\* at most one of its two callbacks fires and fires once, and once the call
\* that fired it has returned the IngestionState is no longer in the manager.
C4_OneCallbackThenRemoved ==
    \A i \in Ingestions :
        /\ CallbacksFired(i) <= 1
        /\ (CallbacksFired(i) >= 1 /\ ~MarkInProgress(i))
              => ~(states[i[1]].present /\ states[i[1]].gen = i[2])

(***************************************************************************)
(* Claims about the ingestion pipelines                                    *)
(***************************************************************************)
\* Nothing is in flight: every thread is between two pieces of work and both
\* queues are empty.
Drained ==
    /\ co_pc = "idle"
    /\ em_pc = "idle"
    /\ st_pc = "idle"
    /\ embedderReadQ = <<>>
    /\ embedderWriteQ = <<>>

\* The latest ingestion of a path.
Latest(p) == <<p, ingests[p]>>

\* C5: after a path has been ingested again and the pipeline has drained, the
\* number of vectors stored for the path is the chunk count of the new
\* ingestion, also when chunks of the previous ingestion were still queued
\* when the re-ingestion started.
C5_ReingestReplacesVectors ==
    \A p \in Paths :
        (Drained /\ ingests[p] >= 2 /\ Latest(p) \notin raised)
            => VectorCount(p) = n_chunks[Latest(p)]

\* C6: for every source and phase, phase.current never decreases and, once
\* the phase has a total, never exceeds it, whichever of the download progress
\* hook, the transcription chunk callback and the workers updates it.
C6_CurrentMonotoneWithinTotal ==
    /\ [][\A s \in Sources, ph \in Phases :
            (/\ states[s].present /\ states'[s].present
             /\ states'[s].gen = states[s].gen
             /\ states[s].phase_progress[ph].exists
             /\ states'[s].phase_progress[ph].exists)
                => states'[s].phase_progress[ph].current
                     >= states[s].phase_progress[ph].current]_vars
    /\ [](\A s \in Sources, ph \in Phases :
            (states[s].present /\ states[s].phase_progress[ph].has_total)
                => states[s].phase_progress[ph].current
                     <= states[s].phase_progress[ph].total)

\* The order of the phases.
Rank(ph) ==
    CASE ph = "none" -> 0
      [] ph = "initialization" -> 1
      [] ph = "downloading" -> 2
      [] ph = "transcription" -> 3
      [] ph = "embedding" -> 4
      [] ph = "storing" -> 5

\* C7: the current phase of an IngestionState only moves forward in the order
\* INITIALIZATION, DOWNLOADING, TRANSCRIPTION, EMBEDDING, STORING, and it is
\* not STORING before a chunk of the source has been embedded.
C7_PhaseOnlyMovesForward ==
    /\ [][\A s \in Sources :
            (states[s].present /\ states'[s].present /\ states'[s].gen = states[s].gen)
                => Rank(states'[s].current_phase) >= Rank(states[s].current_phase)]_vars
    /\ [](\A s \in Sources :
            (states[s].present /\ states[s].current_phase = "storing")
                => states[s].phase_progress["embedding"].current > 0)

\* C8: for every source, STORING.current is at most EMBEDDING.current.
C8_StoringAtMostEmbedding ==
    \A s \in Sources :
        states[s].present
            => states[s].phase_progress["storing"].current
                 <= states[s].phase_progress["embedding"].current

\* C9: when the storage worker has fired the success callback of a source,
\* the STORING phase of the IngestionState it completed has current >= total > 0
\* and every chunk of that ingestion has been inserted into the index.
C9_CompletedOnlyWhenAllStored ==
    (st_pc = "mark_remove" /\ st_ref.callbacks)
        => /\ st_ref.phase_progress["storing"].has_total
           /\ st_ref.phase_progress["storing"].total > 0
           /\ st_ref.phase_progress["storing"].current
                >= st_ref.phase_progress["storing"].total
           /\ \A k \in 1..n_chunks[<<StSource, st_ref.gen>>] :
                 <<StSource, st_ref.gen, k>> \in appended

\* What ingestion_status returns for a source in the current state.
IngestionStatus(p) ==
    IF collections[p] = "processing" /\ ~states[p].present
       THEN "failed"
       ELSE collections[p]

\* C10: once _process_file_async has returned from an ingestion whose Reader
\* raised in read_iter, the source's state is failed, ingestion_status
\* reports failed, and no embedding of the source is stored.
C10_ReaderFailureLeavesNothing ==
    \A p \in Paths :
        (Latest(p) \in raised /\ ~(co_pc # "idle" /\ co_path = p))
            => /\ collections[p] = "failed"
               /\ IngestionStatus(p) = "failed"
               /\ \A x \in embeddings : x[1] # p

\* C11: once _process_file_async has returned from an ingestion that failed
\* after its IngestionState was created (the Reader raised), the failure
\* callback of that IngestionState has been invoked and the IngestionState is
\* no longer in the progress manager.
C11_FailureCallbackAndRemoval ==
    \A p \in Paths :
        (Latest(p) \in raised /\ ~(co_pc # "idle" /\ co_path = p))
            => /\ fired[Latest(p)].failed >= 1
               /\ ~(states[p].present /\ states[p].gen = ingests[p])

\* C12: once the download worker has finished a URL without queueing a
\* TranscriptionTask for it (the URL was rejected or its download failed) and
\* the request that enqueued the URL has returned, the state of the source is
\* "failed", its IngestionState is no longer in the progress manager and no
\* task for it is on the transcription queue.
C12_DroppedUrlEndsFailed ==
    \A i \in dropped :
        (i[2] = ingests[i[1]] /\ ~(url_pc # "idle" /\ url_src = i[1]))
            => /\ collections[i[1]] = "failed"
               /\ ~(states[i[1]].present /\ states[i[1]].gen = i[2])
               /\ i \notin SeqToSet(transcriptionQ)
\* C13: a step of the embedder worker that drops a batch (items leave the read
\* queue and none of them is processed and written, the vectorizer having
\* raised) leaves the worker thread alive and inside its loop, from where it
\* processes the following batches.
C13_VectorizerErrorKeepsWorker ==
    [][(Len(in_queue') < Len(in_queue) /\ consumed' = consumed)
          => (w_thread' = "alive" /\ w_pc' \in {"top", "check", "iter"})]_vars

\* C16: in every reachable state each stored embedding row (none of the rows
\* of this specification is a "user-query" row) belongs to a source that exists
\* in the index, however the storage worker's exists / create / get /
\* add_batch steps interleave with delete(source).
C16_NoOrphanEmbeddings ==
    \A x \in embeddings : Exists(x[1])

(***************************************************************************)
(* Claims about _get_extended_search_result_indices                        *)
(***************************************************************************)
\* The characters start .. end - 1 of the windows of a list
Covered(ws) == UNION {ws[i][1]..(ws[i][2] - 1) : i \in 1..Len(ws)}

\* The (start, end) pairs of a list of (start, end, distance) tuples
WindowsOf(ws) == [i \in 1..Len(ws) |-> <<ws[i][1], ws[i][2]>>]

Reordered(tis, f) == [i \in 1..Len(tis) |-> tis[f[i]]]

Orders(n) == {f \in [1..n -> 1..n] : \A i, j \in 1..n : f[i] = f[j] => i = j}

\* C18: the windows returned for a list of hits of one source are sorted by
\* start, pairwise non-overlapping, cover exactly the characters that the
\* context-extended hits cover, and are the same for every order of the hits;
\* the hits (100,120), (140,160), (300,320) with context 30 give (70,190) and
\* (270,350).
C18_MergedWindows ==
    mg_pc = "returned" =>
        /\ \A i, j \in 1..Len(merged_indices) :
              i < j => merged_indices[i][2] < merged_indices[j][1]
        /\ Covered(merged_indices)
              = Covered(ExtendedIndices(text_inputs, context_chars))
        /\ \A f \in Orders(Len(text_inputs)) :
              WindowsOf(GetExtendedSearchResultIndices(Reordered(text_inputs, f),
                                                       context_chars))
                  = WindowsOf(merged_indices)
        /\ ( /\ context_chars = 30
             /\ {<<text_inputs[i].start_index, text_inputs[i].end_index>> :
                     i \in 1..Len(text_inputs)}
                    = {<<100, 120>>, <<140, 160>>, <<300, 320>>} )
               => WindowsOf(merged_indices) = << <<70, 190>>, <<270, 350>> >>

C18_Witness ==
    /\ mg_pc = "returned"
    /\ context_chars = 30
    /\ Len(text_inputs) = 3
    /\ text_inputs[1].start_index = 300
    /\ text_inputs[2].start_index = 140
    /\ text_inputs[3].start_index = 100
    /\ WindowsOf(merged_indices) = << <<70, 190>>, <<270, 350>> >>

\* The hits whose extended window lies inside the merged window w
MembersOf(w) ==
    {i \in 1..Len(text_inputs) :
        /\ w[1] <= ExtendedIndices(text_inputs, context_chars)[i][1]
        /\ ExtendedIndices(text_inputs, context_chars)[i][2] <= w[2]}

\* C19: the distance reported for a merged window is the minimum of the
\* distances of the hits that were merged into it.
C19_MergedDistanceIsMinimum ==
    mg_pc = "returned" =>
        \A k \in 1..Len(merged_indices) :
            /\ \E i \in MembersOf(merged_indices[k]) :
                  text_inputs[i].distance = merged_indices[k][3]
            /\ \A i \in MembersOf(merged_indices[k]) :
                  merged_indices[k][3] <= text_inputs[i].distance

(***************************************************************************)
(* Claims about search                                                     *)
(***************************************************************************)
\* C14: once a search has run through the embedder and the storage worker
\* and returned, list_sources() does not contain "user-query" and the listing
\* of the data sources does not contain it either.
C14_UserQueryNotListed ==
    sq_status = "success" =>
        /\ USER_QUERY_SOURCE \notin ListSources
        /\ USER_QUERY_SOURCE \notin ListDataSourcesFiles

\* C15: the rows handed to the index for insertion have pairwise different
\* ids, and the TextInputs that one search puts on the embedder queue carry
\* pairwise different metadata ids.
C15_DistinctIds ==
    /\ \A i, j \in 1..Len(handed) : i # j => handed[i] # handed[j]
    /\ \A i, j \in 1..Len(submitted) : i # j => submitted[i].id # submitted[j].id

\* C17: the results that _search_files(query, offset) returns are the results
\* at the positions offset .. offset + limit - 1 of the collected result list.
C17_PageIsSliceOfCollected ==
    (sq_status = "success" /\ sq_kind = "search") =>
        SortByDistance(sq_returned)
            = SortByDistance(Slice(sq_collected, sq_offset, sq_offset + ResultLimit))

\* C20: no result of a search or a deep search has the source "user-query" and
\* no source returned by most relevant files is "user-query", whatever query
\* chunks are stored in the index when the request runs.
C20_NoUserQueryResult ==
    /\ \A i \in 1..Len(sq_returned) : sq_returned[i].source # USER_QUERY_SOURCE
    /\ \A g \in sq_relevant : g.source # USER_QUERY_SOURCE

C20_Witness ==
    /\ sq_status = "success"
    /\ searches = MaxSearches
    /\ sq_kind = "relevant"
    /\ sq_sources = {}
    /\ sq_relevant # {}
    /\ Cardinality({r \in ix_rows : r.collection = USER_QUERY_SOURCE}) >= 2

\* C21: the list that search returns (for a deep search, and for a search
\* from offset 0, the list handed to the client) is in non-decreasing order
\* of distance.
C21_ResultsByDistance ==
    \A i, j \in 1..Len(sq_returned) :
        i < j => sq_returned[i].distance <= sq_returned[j].distance

C21_Witness ==
    /\ sq_status = "success"
    /\ sq_kind = "deep"
    /\ Len(sq_returned) = DeepResultLimit
    /\ sq_returned[1].distance < sq_returned[Len(sq_returned)].distance
    /\ sq_returned # Slice(sq_collected, 0, DeepResultLimit)

\* The row of a query id is stored under "user-query"
Found(id) == \E r \in ix_rows : r.id = id /\ r.collection = USER_QUERY_SOURCE

\* C22: a request leaves its wait with results only if the row of every
\* query id it submitted is stored under "user-query"; if one is missing when
\* it leaves the wait, it ends with the timeout error and returns nothing.
C22_ResultsOnlyWhenAllFound ==
    [][(sq_pc = "wait" /\ sq_pc' = "idle") =>
          /\ sq_status' = "success" =>
                \A i \in 1..Len(query_ids) : Found(query_ids[i])
          /\ (\E i \in 1..Len(query_ids) : ~Found(query_ids[i])) =>
                /\ sq_status' = "timeout"
                /\ sq_returned' = <<>>
                /\ sq_relevant' = {}]_vars

C22_Witness ==
    /\ sq_status = "timeout"
    /\ sq_pc = "idle"
    /\ \E i \in 1..Len(query_ids) : ~Found(query_ids[i])
    /\ Len(sq_readQ) > 0

\* C23: a deep search with more than MAX_SOURCES_IN_DEEP_SEARCH sources
\* returns an error result, and the embedder read queue and the index are as
\* they were before the request: no query chunk is enqueued.
C23_TooManySourcesIsError ==
    [][(/\ searches' = searches + 1
        /\ sq_kind' = "deep"
        /\ Cardinality(sq_sources') > MAX_SOURCES_IN_DEEP_SEARCH) =>
          /\ sq_status' = "error"
          /\ sq_pc' = "idle"
          /\ sq_returned' = <<>>
          /\ sq_readQ' = sq_readQ
          /\ sq_writeQ' = sq_writeQ
          /\ ix_rows' = ix_rows
          /\ ix_collections' = ix_collections]_vars

C23_Witness ==
    /\ sq_status = "error"
    /\ sq_kind = "deep"
    /\ Cardinality(sq_sources) = MAX_SOURCES_IN_DEEP_SEARCH + 1
    /\ sq_readQ = <<>>
    /\ searches = 1

\* C24: when the status request reads the IngestionState of a source whose row
\* it found processing, then without an IngestionState it sets the row to
\* failed and returns failed, and with one it returns processing and changes
\* neither the row nor the IngestionState.
C24_StatusOfProcessingSource ==
    [][(api_pc = "progress" /\ api_pc' = "idle") =>
          IF states[api_path].present
             THEN /\ api_result' = "processing"
                  /\ collections' = collections
                  /\ states' = states
             ELSE /\ api_result' = "failed"
                  /\ collections[api_path] # "not_found" =>
                        collections'[api_path] = "failed"
                  /\ states' = states]_vars

\* The status request has read a processing row and is about to find that the
\* source has no IngestionState.
C24_Witness ==
    /\ api_pc = "progress"
    /\ collections[api_path] = "processing"
    /\ ~states[api_path].present

\* C25: whatever the interleaving of the producers' ensure_running() calls, at
\* most one thread of the manager is alive; no step taken while the thread is
\* alive starts a thread, and a wake call made while it is alive only sets the
\* time since the last activity back to zero.
C25_AtMostOneThread ==
    [][/\ alive_threads' <= 1
       /\ w_thread = "alive" => alive_threads' <= alive_threads
       /\ (w_thread = "alive" /\ \E p \in WProducers : puts'[p] # puts[p]) =>
             /\ idle_for' = 0
             /\ UNCHANGED <<w_thread, w_pc, alive_threads, should_stop>>]_vars

C25_Witness ==
    /\ \A p \in WProducers : put_pc[p] = "enqueue"
    /\ w_thread = "alive"
    /\ alive_threads = 1

\* C26: every item that put_nowait or put_many has placed in the queue was
\* placed by a put that had invoked the wake hook before.
C26_WakeBeforeVisible ==
    \A i \in 1..Len(placed) : <<placed[i][1], placed[i][2]>> \in woken

C26_Witness ==
    /\ \E i \in 1..Len(placed) : call_len[<<placed[i][1], placed[i][2]>>] > 1
    /\ \E p \in Producers : bq_pc[p] = "put_nowait" /\ <<p, calls[p]>> \in woken
    /\ queue # <<>>

C28_StopThenRestart ==
    /\ [][/\ (w_pc = "top" /\ w_pc' # "top" /\ should_stop) => w_pc' = "exit"
          /\ (w_thread = "dead" /\ should_stop /\ w_thread' # "dead") =>
                /\ ~should_stop'
                /\ w_thread' = "alive"
                /\ alive_threads' = 1
                /\ w_pc' = "top"]_vars
    /\ (should_stop /\ w_thread = "alive") ~> (w_thread = "dead")

C28_Witness ==
    /\ restarted
    /\ w_thread = "alive"
    /\ ~should_stop
    /\ alive_threads = 1
    /\ stop_pc = "idle"

\* C29: get_many(k) with k > 0 takes items from the front of the queue only:
\* the items ever placed are the items taken, in the order they were taken,
\* followed by the items still queued; a call holds the last items taken, never
\* more than k, and returns fewer than k only when it found the queue empty.
\* get_many(k) with k <= 0 raises ValueError and changes neither the queue nor
\* the lock.
C29_GetManyTakesFifoPrefix ==
    [][/\ placed' = taken' \o queue'
       /\ \A c \in Consumers :
             /\ bq_pc'[c] = "loop" =>
                   /\ Len(got'[c]) <= max_items'[c]
                   /\ got'[c] = SubSeq(taken', Len(taken') - Len(got'[c]) + 1,
                                       Len(taken'))
             /\ (bq_pc[c] = "loop" /\ bq_pc'[c] = "idle") =>
                   /\ got'[c] = got[c]
                   /\ Len(got[c]) = Min(max_items[c], Len(got[c]) + Len(queue))
                   /\ queue' = queue
             /\ (outcome[c] # "value_error" /\ outcome'[c] = "value_error") =>
                   UNCHANGED <<queue, lock, got, bq_pc, taken>>]_vars

C29_Witness ==
    \E c \in Consumers :
        /\ bq_pc[c] = "idle"
        /\ outcome[c] = "ok"
        /\ Len(got[c]) = 2
        /\ max_items[c] = 2
        /\ queue # <<>>
        /\ taken = got[c]

\* C30: when the request for a file that yields zero chunks returns, the source
\* is in state completed, the success callback of that ingestion has fired
\* exactly once, the source has no IngestionState, and no chunk of that
\* ingestion is on the embedder read queue.
C30_EmptyFileCompleted ==
    [][(co_pc # "idle" /\ co_pc' = "idle" /\ co_n = 0 /\ ~co_raise) =>
          /\ collections'[co_path] = "completed"
          /\ fired'[<<co_path, co_gen>>]["completed"] = 1
          /\ ~states'[co_path].present
          /\ \A i \in 1..Len(embedderReadQ') :
                ~(embedderReadQ'[i][1] = co_path /\ embedderReadQ'[i][2] = co_gen)]_vars

(***************************************************************************)
(* Claims C31 to C40                                                       *)
(***************************************************************************)
\* C31: no step of a search (submitting the query chunks, embedding them,
\* storing them, waiting, searching) creates, modifies or removes an
\* IngestionState: the IngestionStates and their counters stay as they were.
C31_SearchLeavesIngestionStates ==
    [][states' = states]_vars

C31_Witness ==
    /\ states["s1"].present
    /\ sq_status = "success"
    /\ Len(handed) = MaxQueryChunks
    /\ \E r \in ix_rows : r.collection = USER_QUERY_SOURCE

\* C32: every chunk that TextReader.read_iter has produced has
\* 0 <= start_index < end_index <= len(read()), and read()[start_index:end_index]
\* contains the chunk's text stripped of surrounding whitespace.
C32_ChunkIndicesExact ==
    ck_kind = "reader" =>
        \A i \in 1..Len(ck_chunks) :
            /\ 0 <= ck_chunks[i].start_index
            /\ ck_chunks[i].start_index < ck_chunks[i].end_index
            /\ ck_chunks[i].end_index <= Len(ck_file)
            /\ Contains(PySlice(ck_file, ck_chunks[i].start_index,
                                ck_chunks[i].end_index),
                        Strip(ck_chunks[i].text))

\* A line that does not start the file was split into several chunks.
C32_Witness ==
    /\ ck_kind = "reader"
    /\ ck_pc = "done"
    /\ \E i \in 1..(Len(ck_chunks) - 1) :
          /\ ck_chunks[i].start_index > 0
          /\ ck_chunks[i + 1].start_index = ck_chunks[i].end_index

\* C33: for every chunk_size_max >= 1 and every text, both chunkers come to an
\* end, and every chunk they emit has a text that is not only whitespace and
\* is at most chunk_size_max characters long.
C33_ChunksBoundedAndNonBlank ==
    /\ [](\A i \in 1..Len(ck_chunks) :
             /\ 1 <= Len(Strip(ck_chunks[i].text))
             /\ Len(ck_chunks[i].text) <= ck_max)
    /\ <>(ck_pc = "done")

C33_Witness ==
    /\ ck_kind = "query"
    /\ ck_pc = "done"
    /\ Len(ck_chunks) >= 2
    /\ Len(ck_file) = MaxTextLen
    /\ \E i \in 1..Len(ck_file) : ck_file[i] = "\t"

\* The positions of e_out at which a batch, as it was read, was written.
WrittenAt(batch) ==
    {k \in 0..(Len(e_out) - Len(batch)) :
        \A i \in 1..Len(batch) :
            /\ e_out[k + i].id = batch[i].id
            /\ e_out[k + i].text = batch[i].text}

\* C34: every item read by an embedder iteration that returned has entered
\* embedderWriteQ exactly once, with its vector set and in the order it was
\* read; no item has entered embedderWriteQ without a vector, and none twice.
C34_ReadItemsWrittenOnceWithVectors ==
    /\ \A d \in 1..Len(e_done) : WrittenAt(e_done[d]) # {}
    /\ \A i \in 1..Len(e_out) : e_out[i].vec # NoVector
    /\ \A i, j \in 1..Len(e_out) : e_out[i].id = e_out[j].id => i = j

\* Two iterations have returned, one of them with a batch of two items.
C34_Witness ==
    /\ Len(e_done) >= 2
    /\ \E d \in 1..Len(e_done) : Len(e_done[d]) = EmbedBatchSize
    /\ e_pc = "idle"

\* C35: whatever the interleaving of the increment calls of several threads,
\* current is the initial current plus the sum of the amounts of the calls
\* that have stored their result: no increment is lost.
C35_NoIncrementLost == pp_current = pp_initial + pp_added

\* Every thread has made all its calls, and calls of different threads
\* overlapped: one waited for the lock while another held it.
C35_Witness ==
    /\ \A t \in IncThreads : pp_calls[t] = MaxIncrements
    /\ \E t, u \in IncThreads : pp_pc[t] = "write" /\ pp_pc[u] = "lock"
    /\ pp_added > 0

\* C36: a call of set_phase_total, increment_phase_progress,
\* set_phase_progress, mark_as_completed or mark_as_failed on a source that
\* has no IngestionState returns at once, and leaves the IngestionStates of
\* all sources, the callbacks fired and the collection rows as they were.
C36_AbsentSourceCallsChangeNothing ==
    [][\A t \in Clients :
          (marks'[t] = marks[t] + 1 /\ ~states[h_src'[t]].present)
              => /\ states' = states
                 /\ fired' = fired
                 /\ collections' = collections
                 /\ h_pc'[t] = "idle"]_vars

\* A setter has returned from a call on a source without IngestionState while
\* the other source had one with a phase in progress.
C36_Witness ==
    \E t \in Clients :
        /\ marks[t] > 0
        /\ h_pc[t] = "idle"
        /\ h_kind[t] \in {"set_total", "increment", "set_progress"}
        /\ ~h_ref[t].present
        /\ ~states[h_src[t]].present
        /\ \E s \in Sources \ {h_src[t]} :
              /\ states[s].present
              /\ \E ph \in SetterPhases : states[s].phase_progress[ph].exists

\* C37: however a put (wake hook, then enqueue) interleaves with a worker that
\* is leaving its loop on idle timeout, no item stays in the input queue while
\* no worker thread is alive, and every enqueued item is consumed in the end
\* without another put being made.
C37_NoItemStranded ==
    /\ [](in_queue # <<>> => w_thread = "alive")
    /\ \A x \in WItems :
          (\E i \in 1..Len(in_queue) : in_queue[i] = x) ~> (x \in consumed)

\* The latest ingestion of p has put the row of p in state processing and has
\* reached no terminal outcome: its reader did not raise and neither of its
\* callbacks has fired.
Healthy(p) ==
    /\ ingests[p] > 0
    /\ collections[p] = "processing"
    /\ Latest(p) \notin raised
    /\ fired[Latest(p)].completed = 0
    /\ fired[Latest(p)].failed = 0

\* C38: while the row of a source is processing on behalf of an ingestion that
\* has reached no terminal outcome, the source has an IngestionState, and a
\* status request does not answer failed for it, whatever the interleaving of
\* the coordinator with the embedder and storage workers.
C38_ProcessingRowHasIngestionState ==
    /\ [](\A p \in Paths : Healthy(p) => states[p].present)
    /\ [][(api_pc = "progress" /\ api_pc' = "idle" /\ Healthy(api_path))
             => api_result' # "failed"]_vars

\* C39: once a delete has removed a source, and as long as no ingestion of
\* that path is running or requested, the source stays absent and none of its
\* embeddings is stored, also when chunks of the source were still in
\* embedderReadQ or embedderWriteQ at the time of the delete.
C39_DeletedSourceStaysAbsent ==
    [][(/\ api_result = "deleted"
        /\ ~Exists(api_path)
        /\ ~(co_pc # "idle" /\ co_path = api_path)
        /\ ingests' = ingests)
          => /\ ~(collections'[api_path] # "not_found")
             /\ \A x \in embeddings' : x[1] # api_path]_vars

\* C40: under fair scheduling of the coordinator and the workers, a source
\* whose row is processing leaves that state in the end, and its
\* IngestionState is removed in the end, also when its file yields no chunk
\* or its reader raises.
C40_IngestionEventuallyEnds ==
    \A p \in Paths :
        /\ (collections[p] = "processing") ~> (collections[p] # "processing")
        /\ (collections[p] = "processing") ~> ~states[p].present
====
